---- MODULE Spec2Model ----
(***************************************************************************)
(* The tabled SLG search engine of chalk-engine (src/chalk-engine/src/     *)
(* logic.rs): the forest of tables, the strand queues, the stack, the      *)
(* clock and the solve loop of ensure_root_answer, one action per loop     *)
(* iteration.                                                              *)
(*                                                                         *)
(* Terms.  A goal is a record [k, p, a, gs].  k = "dom" is a domain goal   *)
(* p(a); k = "not" is the HH goal  not { p(a) };  k = "cannot" is          *)
(* CannotProve;  k = "unify" is the equality p = a of two parameters;      *)
(* k = "all" is the conjunction of the goals gs.  A parameter is "" (the   *)
(* predicate takes none), a constant "a", "b", the oversized constant "L"  *)
(* (a term larger than max_size), the placeholder "U" (a universally       *)
(* quantified variable), the bound variable "V" of a canonical form (?0 of *)
(* a table goal, of a canonical ex-clause or answer, the quantified        *)
(* variable of a program clause) or the inference variable "?" of a live   *)
(* (instantiated) ex-clause.  The inference table of a strand is kept in   *)
(* applied form: binding "?" substitutes the value for every occurrence of *)
(* "?" in the ex-clause.                                                   *)
(***************************************************************************)
EXTENDS Integers, Sequences, FiniteSets, TLC

VARIABLES prog, tables, clock, stack, pc, call, result, prev, ev, hist

vars == <<prog, tables, clock, stack, pc, call, result, prev, ev, hist>>

\* Bound of the model: the forest clock is not advanced beyond MaxClock.
MaxClock == 5

\* TimeStamp::MAX, larger than every clock the model reaches.
TimeStampMAX == MaxClock + 100

---------------------------------------------------------------------------
(* Goals, literals, ex-clauses *)

Dom(p, a) == [k |-> "dom", p |-> p, a |-> a, gs |-> <<>>]
Not(p, a) == [k |-> "not", p |-> p, a |-> a, gs |-> <<>>]
CannotProve == [k |-> "cannot", p |-> "", a |-> "", gs |-> <<>>]
Unify(x, y) == [k |-> "unify", p |-> x, a |-> y, gs |-> <<>>]
All(gs) == [k |-> "all", p |-> "", a |-> "", gs |-> gs]

Pos(g) == [pos |-> TRUE, g |-> g]
Neg(g) == [pos |-> FALSE, g |-> g]

\* A program clause  p(h) :- body  whose head unification yields the region
\* constraints cons.
Clause(p, h, body, cons) == [p |-> p, h |-> h, body |-> body, cons |-> cons]

\* The parameter x with the variable v replaced by c.
SubstParam(x, v, c) == IF x = v THEN c ELSE x

SubstGoal(g, v, c) ==
    [k |-> g.k,
     p |-> IF g.k = "unify" THEN SubstParam(g.p, v, c) ELSE g.p,
     a |-> SubstParam(g.a, v, c),
     gs |-> [i \in 1..Len(g.gs) |->
                [k |-> g.gs[i].k,
                 p |-> IF g.gs[i].k = "unify" THEN SubstParam(g.gs[i].p, v, c)
                       ELSE g.gs[i].p,
                 a |-> SubstParam(g.gs[i].a, v, c),
                 gs |-> <<>>]]]

SubstLit(l, v, c) == [pos |-> l.pos, g |-> SubstGoal(l.g, v, c)]

SubstSeqGoal(s, v, c) == [i \in 1..Len(s) |-> SubstGoal(s[i], v, c)]
SubstSeqLit(s, v, c) == [i \in 1..Len(s) |-> SubstLit(s[i], v, c)]

SubstExClause(ex, v, c) ==
    [ex EXCEPT !.subst = SubstParam(@, v, c),
               !.subgoals = SubstSeqLit(@, v, c),
               !.delayed_subgoals = SubstSeqGoal(@, v, c),
               !.floundered_subgoals =
                   [i \in 1..Len(@) |->
                       [floundered_literal |-> SubstLit(@[i].floundered_literal, v, c),
                        floundered_time |-> @[i].floundered_time]]]

\* The live ex-clause after its inference variable has been bound to c.
BindExClause(ex, c) == SubstExClause(ex, "?", c)

GoalMentions(g, x) ==
    \/ g.a = x
    \/ g.k = "unify" /\ g.p = x
    \/ \E i \in 1..Len(g.gs) : g.gs[i].a = x \/ (g.gs[i].k = "unify" /\ g.gs[i].p = x)

RemoveAt(s, i) == [j \in 1..(Len(s) - 1) |-> IF j < i THEN s[j] ELSE s[j + 1]]

Min(x, y) == IF x < y THEN x ELSE y

None == <<>>
Some(x) == <<x>>
IsSome(o) == Len(o) > 0
Get(o) == o[1]

---------------------------------------------------------------------------
(* Term services *)

\* fully_canonicalize_goal
fully_canonicalize_goal(g) == SubstGoal(g, "?", "V")

\* truncate_goal: Some(_) exactly when the goal exceeds max_size.
truncate_goal(g) == IF GoalMentions(g, "L") THEN Some(g) ELSE None

\* truncate_answer: Some(_) exactly when the substitution exceeds max_size.
truncate_answer(subst) == IF subst = "L" THEN Some(subst) ELSE None

\* Placeholders become existential variables.
InvertGoal(g) == SubstGoal(g, "U", "?")

\* invert with the convention of truncate_goal: Some(_) when the goal has a
\* free existential variable, None when it can be inverted.
invert_goal_some_on_failure(g) == IF GoalMentions(g, "?") THEN Some(g) ELSE None

\* invert: None when the goal has a free existential variable, otherwise
\* Some(the goal with its placeholders turned into existentials).
invert_goal(g) == IF GoalMentions(g, "?") THEN None ELSE Some(InvertGoal(g))

abstract_positive_literal(g) ==
    IF IsSome(truncate_goal(g)) THEN None ELSE Some(fully_canonicalize_goal(g))

\* abstract_negative_literal that canonicalizes the goal without inverting it.
abstract_negative_literal_without_inversion(g) ==
    IF IsSome(truncate_goal(g)) THEN None ELSE Some(fully_canonicalize_goal(g))

abstract_negative_literal(g) ==
    IF ~IsSome(invert_goal(g)) THEN None
    ELSE IF IsSome(truncate_goal(Get(invert_goal(g)))) THEN None
    ELSE Some(fully_canonicalize_goal(Get(invert_goal(g))))

is_coinductive(P, goal) == goal.k = "dom" /\ goal.p \in P.coind

\* The canonical substitution maps the binders of the goal to themselves.
is_trivial_substitution(subst) == subst \in {"", "V"}

has_delayed_subgoals(answer) == Len(answer.delayed_subgoals) > 0

empty_constraints(answer) == Len(answer.constraints) = 0

next_subgoal_index(ex_clause) == Len(ex_clause.subgoals)

\* program_clauses: Err(Floundered) for a non-enumerable predicate applied to
\* an unbound inference variable, otherwise the clauses of the predicate.
program_clauses(P, goal) ==
    IF goal.p \in P.nonenum /\ goal.a = "?"
    THEN [floundered |-> TRUE, clauses |-> <<>>]
    ELSE [floundered |-> FALSE,
          clauses |-> SelectSeq(P.clauses, LAMBDA c : c.p = goal.p)]

EmptyExClause(subst) ==
    [subst |-> subst, ambiguous |-> FALSE, constraints |-> <<>>, subgoals |-> <<>>,
     delayed_subgoals |-> <<>>, answer_time |-> 0, floundered_subgoals |-> <<>>]

\* resolvent_clause: unify the goal with the head of the clause, then add the
\* region constraints of the unification and the conditions of the clause.
resolvent_clause(goal, subst, clause) ==
    LET g == goal.a
        \* instantiate_binders_existentially: the clause's variable becomes an
        \* inference variable
        h == SubstParam(clause.h, "V", "?")
        conditions == SubstSeqGoal(clause.body, "V", "?")
        unifies == g = h \/ g = "?" \/ h = "?"
        \* the goal's variable takes the head's value
        subst1 == IF g = "?" THEN SubstParam(subst, "?", h) ELSE subst
        \* the clause's variable takes the goal's value
        body == IF h = "?" THEN SubstSeqGoal(conditions, "?", g) ELSE conditions
        lits == [i \in 1..Len(body) |->
                   IF body[i].k = "not" THEN Neg(Dom(body[i].p, body[i].a))
                   ELSE Pos(body[i])]
    IN  IF ~unifies THEN [ok |-> FALSE, ex |-> EmptyExClause(subst)]
        ELSE [ok |-> TRUE,
              ex |-> [EmptyExClause(subst1) EXCEPT !.constraints = clause.cons,
                                                   !.subgoals = lits]]

Reverse(s) == [i \in 1..Len(s) |-> s[Len(s) + 1 - i]]

\* The loop of simplify_hh_goal over the stack of pending goals.
RECURSIVE SimplifyPending(_, _)
SimplifyPending(ex, pending) ==
    IF Len(pending) = 0 THEN [ok |-> TRUE, ex |-> ex]
    ELSE LET hh == pending[Len(pending)]
             rest == SubSeq(pending, 1, Len(pending) - 1)
         IN  CASE hh.k = "all" -> SimplifyPending(ex, rest \o hh.gs)
               [] hh.k = "not" ->
                    SimplifyPending(
                        [ex EXCEPT !.subgoals = Append(@, Neg(Dom(hh.p, hh.a)))], rest)
               [] hh.k = "dom" ->
                    SimplifyPending([ex EXCEPT !.subgoals = Append(@, Pos(hh))], rest)
               [] hh.k = "cannot" ->
                    SimplifyPending([ex EXCEPT !.ambiguous = TRUE], rest)
               [] OTHER ->  \* unify
                    IF hh.p = hh.a THEN SimplifyPending(ex, rest)
                    ELSE IF hh.p = "?"
                      THEN SimplifyPending(BindExClause(ex, hh.a),
                                           SubstSeqGoal(rest, "?", hh.a))
                    ELSE IF hh.a = "?"
                      THEN SimplifyPending(BindExClause(ex, hh.p),
                                           SubstSeqGoal(rest, "?", hh.p))
                    ELSE [ok |-> FALSE, ex |-> ex]

simplify_hh_goal(subst, hh_goal) == SimplifyPending(EmptyExClause(subst), <<hh_goal>>)

---------------------------------------------------------------------------
(* Strands and tables *)

Strand(ex_clause, selected_subgoal, last_pursued_time) ==
    [ex_clause |-> ex_clause, selected_subgoal |-> selected_subgoal,
     last_pursued_time |-> last_pursued_time]

\* canonicalize_ex_clause: the unbound inference variable becomes the bound
\* variable of the canonical form.
canonicalize_ex_clause(ex_clause) == SubstExClause(ex_clause, "?", "V")

\* instantiate_ex_clause that resets the ambiguous flag.
instantiate_ex_clause_unambiguous(canonical_ex_clause) ==
    [SubstExClause(canonical_ex_clause, "V", "?") EXCEPT !.ambiguous = FALSE]

\* instantiate_ex_clause: the bound variable becomes a fresh inference variable.
instantiate_ex_clause(canonical_ex_clause) == SubstExClause(canonical_ex_clause, "V", "?")

\* instantiate_ucanonical_goal: the goal and the substitution of its binders.
instantiate_ucanonical_goal(goal) ==
    [subst |-> IF GoalMentions(goal, "V") THEN "?" ELSE "", goal |-> SubstGoal(goal, "V", "?")]

\* canonicalize_strand / canonicalize_strand_from
canonicalize_strand(strand) ==
    [canonical_ex_clause |-> canonicalize_ex_clause(strand.ex_clause),
     selected_subgoal |-> strand.selected_subgoal,
     last_pursued_time |-> strand.last_pursued_time]

enqueue_strand(tbls, t, strand) == [tbls EXCEPT ![t].strands = Append(@, strand)]

mark_floundered(tbls, t) == [tbls EXCEPT ![t].floundered = TRUE]

take_strands(tbls, t) == [tbls EXCEPT ![t].strands = <<>>]

next_answer_index(tbl) == Len(tbl.answers)

\* Table::answer(index): answer indices count from 0.
HasAnswer(tbl, index) == index < Len(tbl.answers)
AnswerAt(tbl, index) == tbl.answers[index + 1]

index_of(tbls, goal) ==
    IF \E i \in 1..Len(tbls) : tbls[i].table_goal = goal
    THEN Some(CHOOSE i \in 1..Len(tbls) : tbls[i].table_goal = goal)
    ELSE None

\* any_future_answer: the test of the answer at the index when the table
\* holds one, otherwise of the substitutions of the strands in the queue.
\* The test is given as the set of the substitutions it accepts.
any_future_answer(tbls, table, answer, test) ==
    IF HasAnswer(tbls[table], answer)
    THEN AnswerAt(tbls[table], answer).subst \in test
    ELSE \E i \in 1..Len(tbls[table].strands) :
            tbls[table].strands[i].canonical_ex_clause.subst \in test

RECURSIVE ResolveClauses(_, _, _, _)
ResolveClauses(goal, subst, clauses, i) ==
    IF i > Len(clauses) THEN <<>>
    ELSE LET r == resolvent_clause(goal, subst, clauses[i])
         IN  (IF r.ok THEN <<canonicalize_strand(Strand(r.ex, None, 0))>> ELSE <<>>)
             \o ResolveClauses(goal, subst, clauses, i + 1)

\* push_initial_strands / push_initial_strands_instantiated
push_initial_strands(P, tbls, t) ==
    LET inst == instantiate_ucanonical_goal(tbls[t].table_goal)
        goal == inst.goal
        subst == inst.subst
    IN  IF goal.k = "dom"
        THEN LET pc0 == program_clauses(P, goal)
             IN  IF pc0.floundered THEN mark_floundered(tbls, t)
                 ELSE [tbls EXCEPT ![t].strands =
                          @ \o ResolveClauses(goal, subst, pc0.clauses, 1)]
        ELSE LET r == simplify_hh_goal(subst, goal)
             IN  IF r.ok
                 THEN enqueue_strand(tbls, t, canonicalize_strand(Strand(r.ex, None, 0)))
                 ELSE tbls

NewTable(goal, coinductive_goal) ==
    [table_goal |-> goal, coinductive_goal |-> coinductive_goal, floundered |-> FALSE,
     strands |-> <<>>, answers |-> <<>>]

\* get_or_create_table_for_ucanonical_goal that never looks for an existing
\* table.
get_or_create_table_always_inserts(P, tbls, goal) ==
    LET inserted == Append(tbls, NewTable(goal, is_coinductive(P, goal)))
    IN  [tables |-> push_initial_strands(P, inserted, Len(inserted)),
         table |-> Len(inserted)]

\* Returns the forest's tables and the index of the table of the goal.
get_or_create_table_for_ucanonical_goal(P, tbls, goal) ==
    IF IsSome(index_of(tbls, goal))
    THEN [tables |-> tbls, table |-> Get(index_of(tbls, goal))]
    ELSE LET inserted == Append(tbls, NewTable(goal, is_coinductive(P, goal)))
         IN  [tables |-> push_initial_strands(P, inserted, Len(inserted)),
              table |-> Len(inserted)]

\* Returns None when the literal cannot be converted into a table.
get_or_create_table_for_subgoal(P, tbls, literal) ==
    LET abs == IF literal.pos THEN abstract_positive_literal(literal.g)
               ELSE abstract_negative_literal(literal.g)
    IN  IF ~IsSome(abs) THEN None
        ELSE Some(get_or_create_table_for_ucanonical_goal(P, tbls, Get(abs)))

\* push_answer: None when the table already holds this canonical answer,
\* otherwise the answer is appended and its index returned.
push_answer(tbls, t, answer) ==
    IF \E i \in 1..Len(tbls[t].answers) : tbls[t].answers[i] = answer
    THEN [tables |-> tbls, index |-> None]
    ELSE [tables |-> [tbls EXCEPT ![t].answers = Append(@, answer)],
          index |-> Some(Len(tbls[t].answers))]

\* dequeue_next_strand_if: the position in the queue of the next strand that
\* passes the test last_pursued_time < clock, None when there is none.
dequeue_next_strand_if(tbl, clk) ==
    IF \E i \in 1..Len(tbl.strands) : tbl.strands[i].last_pursued_time < clk
    THEN Some(CHOOSE i \in 1..Len(tbl.strands) :
                /\ tbl.strands[i].last_pursued_time < clk
                /\ \A j \in 1..(i - 1) : ~(tbl.strands[j].last_pursued_time < clk))
    ELSE None

---------------------------------------------------------------------------
(* Minimums and the stack *)

Minimums(positive, negative) == [positive |-> positive, negative |-> negative]

MinimumsMAX == Minimums(TimeStampMAX, TimeStampMAX)

take_minimums(self, other) ==
    Minimums(Min(self.positive, other.positive), Min(self.negative, other.negative))

minimum_of_pos_and_neg(m) == Min(m.positive, m.negative)

StackEntry(table, clk, cyclic_minimums) ==
    [table |-> table, clock |-> clk, cyclic_minimums |-> cyclic_minimums,
     active_strand |-> None]

StackPush(stk, table, cyclic_minimums, clk) ==
    Append(stk, StackEntry(table, clk, cyclic_minimums))

\* Stack::is_active: the position of the frame of the table, if any.
is_active(stk, table) ==
    IF \E i \in 1..Len(stk) : stk[i].table = table
    THEN Some(CHOOSE i \in 1..Len(stk) : stk[i].table = table)
    ELSE None

Top(stk) == stk[Len(stk)]

SetActive(stk, strand) == [stk EXCEPT ![Len(stk)].active_strand = strand]

StackPop(stk) == SubSeq(stk, 1, Len(stk) - 1)

---------------------------------------------------------------------------
(* The solve state.  The operators below take and return the record
   [tables, clock, stack, ret, panic]: ret is None while the loop goes on and
   Some(outcome) once ensure_root_answer returns; panic names the assertion
   or panic! that failed, "" when none did. *)

SolveState(tbls, clk, stk) ==
    [tables |-> tbls, clock |-> clk, stack |-> stk, ret |-> None, panic |-> ""]

Panic(S, msg) == [S EXCEPT !.panic = msg]

Return(S, outcome) == [S EXCEPT !.ret = Some(outcome)]

\* unwind_stack that stops at the root frame and leaves it on the stack.
RECURSIVE unwind_stack_keeps_root(_)
unwind_stack_keeps_root(S) ==
    IF Len(S.stack) <= 1 THEN S
    ELSE LET popped == StackPop(S.stack)
             caller == Top(popped)
         IN  unwind_stack_keeps_root(
                [S EXCEPT !.stack = SetActive(popped, None),
                          !.tables = enqueue_strand(S.tables, caller.table,
                                        canonicalize_strand(Get(caller.active_strand)))])

\* unwind_stack that pops every frame and drops the active strands.
unwind_stack_drops_strands(S) == [S EXCEPT !.stack = <<>>]

\* unwind_stack: every caller's active strand goes back to the queue of the
\* caller's table.
RECURSIVE unwind_stack(_)
unwind_stack(S) ==
    IF Len(S.stack) <= 1 THEN [S EXCEPT !.stack = <<>>]
    ELSE LET popped == StackPop(S.stack)
             caller == Top(popped)
         IN  IF ~IsSome(caller.active_strand)
             THEN Panic([S EXCEPT !.stack = popped], "pop_and_take_caller_strand: unwrap")
             ELSE unwind_stack(
                    [S EXCEPT !.stack = SetActive(popped, None),
                              !.tables = enqueue_strand(S.tables, caller.table,
                                            canonicalize_strand(Get(caller.active_strand)))])

\* Drop for SolveState that only unwinds the stack.
drop_without_top_strand(S) ==
    IF Len(S.stack) = 0 THEN S ELSE unwind_stack(S)

\* Drop for SolveState: the active strand of the top frame goes back to its
\* table, then the stack is unwound.
drop(S) ==
    IF Len(S.stack) = 0 THEN S
    ELSE LET top == Top(S.stack)
         IN  IF IsSome(top.active_strand)
             THEN unwind_stack(
                    [S EXCEPT !.stack = SetActive(@, None),
                              !.tables = enqueue_strand(@, top.table,
                                            canonicalize_strand(Get(top.active_strand)))])
             ELSE unwind_stack(S)

\* flounder_subgoal: the subgoal moves to the floundered list, stamped with
\* the ex-clause's answer time.
flounder_subgoal(ex_clause, subgoal_index) ==
    [ex_clause EXCEPT
        !.subgoals = RemoveAt(@, subgoal_index),
        !.floundered_subgoals =
            Append(@, [floundered_literal |-> ex_clause.subgoals[subgoal_index],
                       floundered_time |-> ex_clause.answer_time])]

\* Vec::swap_remove
SwapRemove(s, i) ==
    IF i = Len(s) THEN SubSeq(s, 1, Len(s) - 1)
    ELSE [j \in 1..(Len(s) - 1) |-> IF j = i THEN s[Len(s)] ELSE s[j]]

\* reconsider_floundered_subgoals, from position i down to the first.
RECURSIVE ReconsiderFrom(_, _)
ReconsiderFrom(ex_clause, i) ==
    IF i = 0 THEN ex_clause
    ELSE IF ex_clause.floundered_subgoals[i].floundered_time < ex_clause.answer_time
         THEN ReconsiderFrom(
                [ex_clause EXCEPT
                    !.floundered_subgoals = SwapRemove(@, i),
                    !.subgoals =
                        Append(@, ex_clause.floundered_subgoals[i].floundered_literal)],
                i - 1)
         ELSE ReconsiderFrom(ex_clause, i - 1)

reconsider_floundered_subgoals(ex_clause) ==
    ReconsiderFrom(ex_clause, Len(ex_clause.floundered_subgoals))

\* propagate_floundered_subgoal: the selection is taken; a positive literal is
\* floundered on the strand (result FALSE), a negative one makes the strand
\* flounder (result TRUE).
propagate_floundered_subgoal(strand) ==
    LET selected_subgoal == Get(strand.selected_subgoal)
        taken == [strand EXCEPT !.selected_subgoal = None]
    IN  IF strand.ex_clause.subgoals[selected_subgoal.subgoal_index].pos
        THEN [flounders |-> FALSE,
              strand |-> [taken EXCEPT !.ex_clause =
                             flounder_subgoal(@, selected_subgoal.subgoal_index)]]
        ELSE [flounders |-> TRUE, strand |-> taken]

SelectedSubgoal(subgoal_index, subgoal_table, answer_index) ==
    [subgoal_index |-> subgoal_index, subgoal_table |-> subgoal_table,
     answer_index |-> answer_index]

\* select_subgoal that does not look at the floundered flag of the table of
\* the selected subgoal.
RECURSIVE select_subgoal_without_flounder_check(_, _, _)
select_subgoal_without_flounder_check(P, tbls, strand) ==
    IF ~IsSome(strand.selected_subgoal)
    THEN IF Len(strand.ex_clause.subgoals) = 0
         THEN IF Len(strand.ex_clause.floundered_subgoals) = 0
              THEN [tables |-> tbls, strand |-> strand, sel |-> "NoRemainingSubgoals"]
              ELSE LET ex1 == reconsider_floundered_subgoals(strand.ex_clause)
                   IN  IF Len(ex1.subgoals) = 0
                       THEN [tables |-> tbls, strand |-> [strand EXCEPT !.ex_clause = ex1],
                             sel |-> "Floundered"]
                       ELSE select_subgoal_without_flounder_check(P, tbls, [strand EXCEPT !.ex_clause = ex1])
         ELSE LET subgoal_index == next_subgoal_index(strand.ex_clause)
                  got == get_or_create_table_for_subgoal(
                             P, tbls, strand.ex_clause.subgoals[subgoal_index])
              IN  IF IsSome(got)
                  THEN select_subgoal_without_flounder_check(P, Get(got).tables,
                          [strand EXCEPT !.selected_subgoal =
                              Some(SelectedSubgoal(subgoal_index, Get(got).table, 0))])
                  ELSE select_subgoal_without_flounder_check(P, tbls,
                          [strand EXCEPT !.ex_clause = flounder_subgoal(@, subgoal_index)])
    ELSE [tables |-> tbls, strand |-> strand, sel |-> "Selected"]

\* select_subgoal that answers NoRemainingSubgoals whenever the subgoals are
\* still empty after the floundered subgoals were reconsidered.
RECURSIVE select_subgoal_never_flounders_on_empty(_, _, _)
select_subgoal_never_flounders_on_empty(P, tbls, strand) ==
    IF ~IsSome(strand.selected_subgoal)
    THEN IF Len(strand.ex_clause.subgoals) = 0
         THEN IF Len(strand.ex_clause.floundered_subgoals) = 0
              THEN [tables |-> tbls, strand |-> strand, sel |-> "NoRemainingSubgoals"]
              ELSE LET ex1 == reconsider_floundered_subgoals(strand.ex_clause)
                   IN  IF Len(ex1.subgoals) = 0
                       THEN [tables |-> tbls, strand |-> [strand EXCEPT !.ex_clause = ex1],
                             sel |-> "NoRemainingSubgoals"]
                       ELSE select_subgoal_never_flounders_on_empty(P, tbls, [strand EXCEPT !.ex_clause = ex1])
         ELSE LET subgoal_index == next_subgoal_index(strand.ex_clause)
                  got == get_or_create_table_for_subgoal(
                             P, tbls, strand.ex_clause.subgoals[subgoal_index])
              IN  IF IsSome(got)
                  THEN select_subgoal_never_flounders_on_empty(P, Get(got).tables,
                          [strand EXCEPT !.selected_subgoal =
                              Some(SelectedSubgoal(subgoal_index, Get(got).table, 0))])
                  ELSE select_subgoal_never_flounders_on_empty(P, tbls,
                          [strand EXCEPT !.ex_clause = flounder_subgoal(@, subgoal_index)])
    ELSE IF tbls[Get(strand.selected_subgoal).subgoal_table].floundered
         THEN LET pr == propagate_floundered_subgoal(strand)
              IN  IF pr.flounders
                  THEN [tables |-> tbls, strand |-> pr.strand, sel |-> "Floundered"]
                  ELSE select_subgoal_never_flounders_on_empty(P, tbls, pr.strand)
         ELSE [tables |-> tbls, strand |-> strand, sel |-> "Selected"]

\* select_subgoal that answers NoRemainingSubgoals as soon as the subgoals are
\* empty, without looking at the floundered subgoals.
RECURSIVE select_subgoal_ignores_floundered_subgoals(_, _, _)
select_subgoal_ignores_floundered_subgoals(P, tbls, strand) ==
    IF ~IsSome(strand.selected_subgoal)
    THEN IF Len(strand.ex_clause.subgoals) = 0
         THEN [tables |-> tbls, strand |-> strand, sel |-> "NoRemainingSubgoals"]
         ELSE LET subgoal_index == next_subgoal_index(strand.ex_clause)
                  got == get_or_create_table_for_subgoal(
                             P, tbls, strand.ex_clause.subgoals[subgoal_index])
              IN  IF IsSome(got)
                  THEN select_subgoal_ignores_floundered_subgoals(P, Get(got).tables,
                          [strand EXCEPT !.selected_subgoal =
                              Some(SelectedSubgoal(subgoal_index, Get(got).table, 0))])
                  ELSE select_subgoal_ignores_floundered_subgoals(P, tbls,
                          [strand EXCEPT !.ex_clause = flounder_subgoal(@, subgoal_index)])
    ELSE IF tbls[Get(strand.selected_subgoal).subgoal_table].floundered
         THEN LET pr == propagate_floundered_subgoal(strand)
              IN  IF pr.flounders
                  THEN [tables |-> tbls, strand |-> pr.strand, sel |-> "Floundered"]
                  ELSE select_subgoal_ignores_floundered_subgoals(P, tbls, pr.strand)
         ELSE [tables |-> tbls, strand |-> strand, sel |-> "Selected"]

\* select_subgoal that reconsiders the floundered subgoals while the strand
\* still has subgoals.
RECURSIVE select_subgoal_reconsiders_first(_, _, _)
select_subgoal_reconsiders_first(P, tbls, strand) ==
    IF /\ ~IsSome(strand.selected_subgoal)
       /\ Len(strand.ex_clause.subgoals) # 0
       /\ reconsider_floundered_subgoals(strand.ex_clause) # strand.ex_clause
    THEN select_subgoal_reconsiders_first(
             P, tbls, [strand EXCEPT !.ex_clause = reconsider_floundered_subgoals(@)])
    ELSE IF ~IsSome(strand.selected_subgoal)
        THEN IF Len(strand.ex_clause.subgoals) = 0
             THEN IF Len(strand.ex_clause.floundered_subgoals) = 0
                  THEN [tables |-> tbls, strand |-> strand, sel |-> "NoRemainingSubgoals"]
                  ELSE LET ex1 == reconsider_floundered_subgoals(strand.ex_clause)
                       IN  IF Len(ex1.subgoals) = 0
                           THEN [tables |-> tbls, strand |-> [strand EXCEPT !.ex_clause = ex1],
                                 sel |-> "Floundered"]
                           ELSE select_subgoal_reconsiders_first(P, tbls, [strand EXCEPT !.ex_clause = ex1])
             ELSE LET subgoal_index == next_subgoal_index(strand.ex_clause)
                      got == get_or_create_table_for_subgoal(
                                 P, tbls, strand.ex_clause.subgoals[subgoal_index])
                  IN  IF IsSome(got)
                      THEN select_subgoal_reconsiders_first(P, Get(got).tables,
                              [strand EXCEPT !.selected_subgoal =
                                  Some(SelectedSubgoal(subgoal_index, Get(got).table, 0))])
                      ELSE select_subgoal_reconsiders_first(P, tbls,
                              [strand EXCEPT !.ex_clause = flounder_subgoal(@, subgoal_index)])
        ELSE IF tbls[Get(strand.selected_subgoal).subgoal_table].floundered
             THEN LET pr == propagate_floundered_subgoal(strand)
                  IN  IF pr.flounders
                      THEN [tables |-> tbls, strand |-> pr.strand, sel |-> "Floundered"]
                      ELSE select_subgoal_reconsiders_first(P, tbls, pr.strand)
             ELSE [tables |-> tbls, strand |-> strand, sel |-> "Selected"]

\* select_subgoal: the tables (a table may have been created), the strand
\* and the SubGoalSelection.
RECURSIVE select_subgoal(_, _, _)
select_subgoal(P, tbls, strand) ==
    IF ~IsSome(strand.selected_subgoal)
    THEN IF Len(strand.ex_clause.subgoals) = 0
         THEN IF Len(strand.ex_clause.floundered_subgoals) = 0
              THEN [tables |-> tbls, strand |-> strand, sel |-> "NoRemainingSubgoals"]
              ELSE LET ex1 == reconsider_floundered_subgoals(strand.ex_clause)
                   IN  IF Len(ex1.subgoals) = 0
                       THEN [tables |-> tbls, strand |-> [strand EXCEPT !.ex_clause = ex1],
                             sel |-> "Floundered"]
                       ELSE select_subgoal(P, tbls, [strand EXCEPT !.ex_clause = ex1])
         ELSE LET subgoal_index == next_subgoal_index(strand.ex_clause)
                  got == get_or_create_table_for_subgoal(
                             P, tbls, strand.ex_clause.subgoals[subgoal_index])
              IN  IF IsSome(got)
                  THEN select_subgoal(P, Get(got).tables,
                          [strand EXCEPT !.selected_subgoal =
                              Some(SelectedSubgoal(subgoal_index, Get(got).table, 0))])
                  ELSE select_subgoal(P, tbls,
                          [strand EXCEPT !.ex_clause = flounder_subgoal(@, subgoal_index)])
    ELSE IF tbls[Get(strand.selected_subgoal).subgoal_table].floundered
         THEN LET pr == propagate_floundered_subgoal(strand)
              IN  IF pr.flounders
                  THEN [tables |-> tbls, strand |-> pr.strand, sel |-> "Floundered"]
                  ELSE select_subgoal(P, tbls, pr.strand)
         ELSE [tables |-> tbls, strand |-> strand, sel |-> "Selected"]

\* apply_answer_subst: unify the instantiated answer with the selected goal,
\* add the answer's constraints and those of its delayed subgoals that differ
\* from the instantiated table goal.  The answer and the table goal are
\* instantiated one after the other in the strand's inference table, so the
\* variable of the table goal ("?t") is none of the answer's.
apply_answer_subst(ex_clause, selected_goal, answer_table_goal, answer) ==
    LET s == answer.subst
        \* the instantiated value of the table goal's variable
        sv == IF s \in {"", "V"} THEN "?" ELSE s
        unifies == SubstGoal(answer_table_goal, "V", sv) = SubstGoal(selected_goal, "?", sv)
        bound == BindExClause(ex_clause, sv)
        table_goal == SubstGoal(answer_table_goal, "V", "?t")
        delayed == SelectSeq(SubstSeqGoal(answer.delayed_subgoals, "V", "?"),
                             LAMBDA d : d # table_goal)
    IN  IF ~unifies THEN [ok |-> FALSE, ex |-> ex_clause]
        ELSE [ok |-> TRUE,
              ex |-> [bound EXCEPT !.constraints = @ \o answer.constraints,
                                   !.delayed_subgoals = @ \o delayed]]

\* merge_answer_into_strand that enqueues no next-answer clone.
merge_answer_into_strand_without_clone(S, strand) ==
    LET selected_subgoal == Get(strand.selected_subgoal)
        literal == strand.ex_clause.subgoals[selected_subgoal.subgoal_index]
        taken == [strand EXCEPT
                    !.selected_subgoal = None,
                    !.ex_clause.subgoals = RemoveAt(@, selected_subgoal.subgoal_index)]
        subgoal_table == selected_subgoal.subgoal_table
        answer == AnswerAt(S.tables[subgoal_table], selected_subgoal.answer_index)
    IN  IF literal.pos
        THEN LET applied == apply_answer_subst(taken.ex_clause, literal.g,
                                S.tables[subgoal_table].table_goal, answer)
             IN  IF applied.ok
                 THEN [S |-> S, ok |-> TRUE,
                       strand |-> [taken EXCEPT !.ex_clause =
                           [applied.ex EXCEPT
                               !.ambiguous = IF answer.ambiguous THEN TRUE ELSE @,
                               !.answer_time = @ + 1]]]
                 ELSE [S |-> Return(unwind_stack(S), "QuantumExceeded"), ok |-> FALSE,
                       strand |-> taken]
        ELSE IF has_delayed_subgoals(answer)
             THEN [S |-> Panic(S, "Negative subgoal had delayed_subgoals"), ok |-> FALSE,
                   strand |-> taken]
             ELSE IF ~answer.ambiguous
             THEN [S |-> Return(unwind_stack(S), "QuantumExceeded"), ok |-> FALSE,
                   strand |-> taken]
             ELSE [S |-> S, ok |-> TRUE,
                   strand |-> [taken EXCEPT !.ex_clause.ambiguous = TRUE]]

\* merge_answer_into_strand that applies a positive answer without advancing
\* the answer time of the ex-clause.
merge_answer_into_strand_keeps_answer_time(S, strand) ==
    LET selected_subgoal == Get(strand.selected_subgoal)
        literal == strand.ex_clause.subgoals[selected_subgoal.subgoal_index]
        next_strand == [strand EXCEPT !.selected_subgoal =
                           Some([selected_subgoal EXCEPT !.answer_index = @ + 1])]
        table == Top(S.stack).table
        S1 == IF literal.pos
              THEN [S EXCEPT !.tables =
                       enqueue_strand(@, table, canonicalize_strand(next_strand))]
              ELSE S
        taken == [strand EXCEPT
                    !.selected_subgoal = None,
                    !.ex_clause.subgoals = RemoveAt(@, selected_subgoal.subgoal_index)]
        subgoal_table == selected_subgoal.subgoal_table
        answer == AnswerAt(S.tables[subgoal_table], selected_subgoal.answer_index)
    IN  IF literal.pos
        THEN LET applied == apply_answer_subst(taken.ex_clause, literal.g,
                                S.tables[subgoal_table].table_goal, answer)
             IN  IF applied.ok
                 THEN [S |-> S1, ok |-> TRUE,
                       strand |-> [taken EXCEPT !.ex_clause =
                           [applied.ex EXCEPT
                               !.ambiguous = IF answer.ambiguous THEN TRUE ELSE @]]]
                 ELSE [S |-> Return(unwind_stack(S1), "QuantumExceeded"), ok |-> FALSE,
                       strand |-> taken]
        ELSE IF has_delayed_subgoals(answer)
             THEN [S |-> Panic(S1, "Negative subgoal had delayed_subgoals"), ok |-> FALSE,
                   strand |-> taken]
             ELSE IF ~answer.ambiguous
             THEN [S |-> Return(unwind_stack(S1), "QuantumExceeded"), ok |-> FALSE,
                   strand |-> taken]
             ELSE [S |-> S1, ok |-> TRUE,
                   strand |-> [taken EXCEPT !.ex_clause.ambiguous = TRUE]]

\* merge_answer_into_strand that enqueues the next-answer clone for a negative
\* selected literal too.
merge_answer_into_strand_clones_always(S, strand) ==
    LET selected_subgoal == Get(strand.selected_subgoal)
        literal == strand.ex_clause.subgoals[selected_subgoal.subgoal_index]
        next_strand == [strand EXCEPT !.selected_subgoal =
                           Some([selected_subgoal EXCEPT !.answer_index = @ + 1])]
        table == Top(S.stack).table
        S1 == [S EXCEPT !.tables =
                       enqueue_strand(@, table, canonicalize_strand(next_strand))]
        taken == [strand EXCEPT
                    !.selected_subgoal = None,
                    !.ex_clause.subgoals = RemoveAt(@, selected_subgoal.subgoal_index)]
        subgoal_table == selected_subgoal.subgoal_table
        answer == AnswerAt(S.tables[subgoal_table], selected_subgoal.answer_index)
    IN  IF literal.pos
        THEN LET applied == apply_answer_subst(taken.ex_clause, literal.g,
                                S.tables[subgoal_table].table_goal, answer)
             IN  IF applied.ok
                 THEN [S |-> S1, ok |-> TRUE,
                       strand |-> [taken EXCEPT !.ex_clause =
                           [applied.ex EXCEPT
                               !.ambiguous = IF answer.ambiguous THEN TRUE ELSE @,
                               !.answer_time = @ + 1]]]
                 ELSE [S |-> Return(unwind_stack(S1), "QuantumExceeded"), ok |-> FALSE,
                       strand |-> taken]
        ELSE IF has_delayed_subgoals(answer)
             THEN [S |-> Panic(S1, "Negative subgoal had delayed_subgoals"), ok |-> FALSE,
                   strand |-> taken]
             ELSE IF ~answer.ambiguous
             THEN [S |-> Return(unwind_stack(S1), "QuantumExceeded"), ok |-> FALSE,
                   strand |-> taken]
             ELSE [S |-> S1, ok |-> TRUE,
                   strand |-> [taken EXCEPT !.ex_clause.ambiguous = TRUE]]

\* merge_answer_into_strand: the solve state, the strand and whether the
\* merge succeeded; on failure the stack has been unwound.
merge_answer_into_strand(S, strand) ==
    LET selected_subgoal == Get(strand.selected_subgoal)
        literal == strand.ex_clause.subgoals[selected_subgoal.subgoal_index]
        next_strand == [strand EXCEPT !.selected_subgoal =
                           Some([selected_subgoal EXCEPT !.answer_index = @ + 1])]
        table == Top(S.stack).table
        S1 == IF literal.pos
              THEN [S EXCEPT !.tables =
                       enqueue_strand(@, table, canonicalize_strand(next_strand))]
              ELSE S
        taken == [strand EXCEPT
                    !.selected_subgoal = None,
                    !.ex_clause.subgoals = RemoveAt(@, selected_subgoal.subgoal_index)]
        subgoal_table == selected_subgoal.subgoal_table
        answer == AnswerAt(S.tables[subgoal_table], selected_subgoal.answer_index)
    IN  IF literal.pos
        THEN LET applied == apply_answer_subst(taken.ex_clause, literal.g,
                                S.tables[subgoal_table].table_goal, answer)
             IN  IF applied.ok
                 THEN [S |-> S1, ok |-> TRUE,
                       strand |-> [taken EXCEPT !.ex_clause =
                           [applied.ex EXCEPT
                               !.ambiguous = IF answer.ambiguous THEN TRUE ELSE @,
                               !.answer_time = @ + 1]]]
                 ELSE [S |-> Return(unwind_stack(S1), "QuantumExceeded"), ok |-> FALSE,
                       strand |-> taken]
        ELSE IF has_delayed_subgoals(answer)
             THEN [S |-> Panic(S1, "Negative subgoal had delayed_subgoals"), ok |-> FALSE,
                   strand |-> taken]
             ELSE IF ~answer.ambiguous
             THEN [S |-> Return(unwind_stack(S1), "QuantumExceeded"), ok |-> FALSE,
                   strand |-> taken]
             ELSE [S |-> S1, ok |-> TRUE,
                   strand |-> [taken EXCEPT !.ex_clause.ambiguous = TRUE]]

\* on_coinductive_subgoal that drops the subgoal of the cycle instead of
\* delaying it.
on_coinductive_subgoal_drops_subgoal(S, strand) ==
    LET selected_subgoal == Get(strand.selected_subgoal)
        literal == strand.ex_clause.subgoals[selected_subgoal.subgoal_index]
        dropped == [strand EXCEPT
                      !.selected_subgoal = None,
                      !.ex_clause.subgoals = RemoveAt(@, selected_subgoal.subgoal_index)]
    IN  IF literal.pos
        THEN [S EXCEPT !.stack = SetActive(@, Some(dropped))]
        ELSE Panic(S, "Coinductive cycle with negative literal")

\* on_coinductive_subgoal: the selected positive subgoal is delayed.
on_coinductive_subgoal(S, strand) ==
    LET selected_subgoal == Get(strand.selected_subgoal)
        literal == strand.ex_clause.subgoals[selected_subgoal.subgoal_index]
        table == Top(S.stack).table
        delayed == [strand EXCEPT
                      !.selected_subgoal = None,
                      !.ex_clause.subgoals = RemoveAt(@, selected_subgoal.subgoal_index),
                      !.ex_clause.delayed_subgoals = Append(@, literal.g)]
    IN  IF literal.pos
        THEN IF S.tables[table].coinductive_goal
                /\ S.tables[selected_subgoal.subgoal_table].coinductive_goal
             THEN [S EXCEPT !.stack = SetActive(@, Some(delayed))]
             ELSE Panic(S, "assert coinductive_goal")
        ELSE Panic(S, "Coinductive cycle with negative literal")

\* on_positive_cycle that treats a negative selected literal as a positive one.
on_positive_cycle_ignores_sign(S, strand, minimums) ==
    LET top == Top(S.stack)
    IN  [S EXCEPT
           !.stack[Len(S.stack)].cyclic_minimums = take_minimums(@, minimums),
           !.tables = enqueue_strand(@, top.table, canonicalize_strand(strand))]

\* on_positive_cycle that records every cycle as a negative dependency.
on_positive_cycle_always_negative(S, strand, minimums) ==
    LET top == Top(S.stack)
        mins == Minimums(top.clock, minimum_of_pos_and_neg(minimums))
    IN  [S EXCEPT
           !.stack[Len(S.stack)].cyclic_minimums = take_minimums(@, mins),
           !.tables = enqueue_strand(@, top.table, canonicalize_strand(strand))]

\* on_positive_cycle: fold the minimums of the cycle into the top frame and
\* return the strand to its table.
on_positive_cycle(S, strand, minimums) ==
    LET selected_subgoal == Get(strand.selected_subgoal)
        top == Top(S.stack)
        mins == IF strand.ex_clause.subgoals[selected_subgoal.subgoal_index].pos
                THEN minimums
                ELSE Minimums(top.clock, minimum_of_pos_and_neg(minimums))
    IN  [S EXCEPT
           !.stack[Len(S.stack)].cyclic_minimums = take_minimums(@, mins),
           !.tables = enqueue_strand(@, top.table, canonicalize_strand(strand))]

\* top_of_stack_is_coinductive_from that looks at the table of the cyclic frame
\* only.
top_of_stack_is_coinductive_at(S, depth) ==
    S.tables[S.stack[depth].table].coinductive_goal

\* True if all the tables on the stack from depth up to the top are coinductive.
top_of_stack_is_coinductive_from(S, depth) ==
    \A d \in depth..Len(S.stack) : S.tables[S.stack[d].table].coinductive_goal

\* on_subgoal_selected without the check that the subgoal table is active.
on_subgoal_selected_always_pushes(S, strand) ==
    LET selected_subgoal == Get(strand.selected_subgoal)
        subgoal_table == selected_subgoal.subgoal_table
        answer_index == selected_subgoal.answer_index
    IN  IF HasAnswer(S.tables[subgoal_table], answer_index)
        THEN LET m == merge_answer_into_strand(S, strand)
             IN  IF m.ok THEN [m.S EXCEPT !.stack = SetActive(@, Some(m.strand))]
                 ELSE m.S
        ELSE [S EXCEPT
                !.stack = StackPush(SetActive(@, Some(strand)), subgoal_table,
                                    MinimumsMAX, S.clock + 1),
                !.clock = @ + 1]

\* on_subgoal_selected that pushes the subgoal table with the current clock,
\* without incrementing it.
on_subgoal_selected_without_tick(S, strand) ==
    LET selected_subgoal == Get(strand.selected_subgoal)
        subgoal_table == selected_subgoal.subgoal_table
        answer_index == selected_subgoal.answer_index
    IN  IF S.tables[subgoal_table].floundered
        THEN Panic(S, "assert !is_floundered")
        ELSE IF HasAnswer(S.tables[subgoal_table], answer_index)
        THEN LET m == merge_answer_into_strand(S, strand)
             IN  IF m.ok THEN [m.S EXCEPT !.stack = SetActive(@, Some(m.strand))]
                 ELSE m.S
        ELSE IF next_answer_index(S.tables[subgoal_table]) # answer_index
        THEN Panic(S, "assert_eq next_answer_index")
        ELSE IF IsSome(is_active(S.stack, subgoal_table))
        THEN LET cyclic_depth == Get(is_active(S.stack, subgoal_table))
                 minimums == Minimums(S.stack[cyclic_depth].clock, TimeStampMAX)
             IN  IF top_of_stack_is_coinductive_from(S, cyclic_depth)
                 THEN on_coinductive_subgoal(S, strand)
                 ELSE on_positive_cycle(S, strand, minimums)
        ELSE [S EXCEPT
                !.stack = StackPush(SetActive(@, Some(strand)), subgoal_table,
                                    MinimumsMAX, S.clock)]

\* on_subgoal_selected
on_subgoal_selected(S, strand) ==
    LET selected_subgoal == Get(strand.selected_subgoal)
        subgoal_table == selected_subgoal.subgoal_table
        answer_index == selected_subgoal.answer_index
    IN  IF S.tables[subgoal_table].floundered
        THEN Panic(S, "assert !is_floundered")
        ELSE IF HasAnswer(S.tables[subgoal_table], answer_index)
        THEN LET m == merge_answer_into_strand(S, strand)
             IN  IF m.ok THEN [m.S EXCEPT !.stack = SetActive(@, Some(m.strand))]
                 ELSE m.S
        ELSE IF next_answer_index(S.tables[subgoal_table]) # answer_index
        THEN Panic(S, "assert_eq next_answer_index")
        ELSE IF IsSome(is_active(S.stack, subgoal_table))
        THEN LET cyclic_depth == Get(is_active(S.stack, subgoal_table))
                 minimums == Minimums(S.stack[cyclic_depth].clock, TimeStampMAX)
             IN  IF top_of_stack_is_coinductive_from(S, cyclic_depth)
                 THEN on_coinductive_subgoal(S, strand)
                 ELSE on_positive_cycle(S, strand, minimums)
        ELSE [S EXCEPT
                !.stack = StackPush(SetActive(@, Some(strand)), subgoal_table,
                                    MinimumsMAX, S.clock + 1),
                !.clock = @ + 1]

Answer(subst, constraints, delayed_subgoals, ambiguous) ==
    [subst |-> subst, constraints |-> constraints,
     delayed_subgoals |-> delayed_subgoals, ambiguous |-> ambiguous]

\* canonicalize_answer_subst
canonicalize_answer_subst(subst, constraints, delayed_subgoals) ==
    [subst |-> SubstParam(subst, "?", "V"), constraints |-> constraints,
     delayed_subgoals |-> SubstSeqGoal(delayed_subgoals, "?", "V")]

\* pursue_answer that puts a new answer in front of the answers of the table.
pursue_answer_inserts_in_front(S, strand) ==
    LET table == Top(S.stack).table
        ex == strand.ex_clause
        canon == canonicalize_answer_subst(ex.subst, ex.constraints, ex.delayed_subgoals)
        answer == Answer(canon.subst, canon.constraints, canon.delayed_subgoals,
                         ex.ambiguous)
        is_trivial_answer == /\ ~answer.ambiguous
                             /\ is_trivial_substitution(answer.subst)
                             /\ empty_constraints(answer)
        pushed == push_answer(S.tables, table, answer)
        in_front == [S.tables EXCEPT ![table].answers = <<answer>> \o @]
    IN  IF IsSome(truncate_answer(ex.subst))
        THEN [S |-> [S EXCEPT !.tables = mark_floundered(@, table)], index |-> None]
        ELSE IF IsSome(pushed.index)
        THEN [S |-> [S EXCEPT !.tables = IF is_trivial_answer
                                        THEN take_strands(in_front, table)
                                        ELSE in_front],
              index |-> pushed.index]
        ELSE [S |-> S, index |-> None]

\* pursue_answer that publishes every answer, new or not.
pursue_answer_without_dedup(S, strand) ==
    LET table == Top(S.stack).table
        ex == strand.ex_clause
        canon == canonicalize_answer_subst(ex.subst, ex.constraints, ex.delayed_subgoals)
        answer == Answer(canon.subst, canon.constraints, canon.delayed_subgoals,
                         ex.ambiguous)
        is_trivial_answer == /\ ~answer.ambiguous
                             /\ is_trivial_substitution(answer.subst)
                             /\ empty_constraints(answer)
        appended == [S.tables EXCEPT ![table].answers = Append(@, answer)]
    IN  IF IsSome(truncate_answer(ex.subst))
        THEN [S |-> [S EXCEPT !.tables = mark_floundered(@, table)], index |-> None]
        ELSE [S |-> [S EXCEPT !.tables = IF is_trivial_answer
                                        THEN take_strands(appended, table)
                                        ELSE appended],
              index |-> Some(next_answer_index(S.tables[table]))]

\* pursue_answer without the green cut.
pursue_answer_without_green_cut(S, strand) ==
    LET table == Top(S.stack).table
        ex == strand.ex_clause
        canon == canonicalize_answer_subst(ex.subst, ex.constraints, ex.delayed_subgoals)
        answer == Answer(canon.subst, canon.constraints, canon.delayed_subgoals,
                         ex.ambiguous)
        pushed == push_answer(S.tables, table, answer)
    IN  IF IsSome(truncate_answer(ex.subst))
        THEN [S |-> [S EXCEPT !.tables = mark_floundered(@, table)], index |-> None]
        ELSE IF IsSome(pushed.index)
        THEN [S |-> [S EXCEPT !.tables = pushed.tables], index |-> pushed.index]
        ELSE [S |-> S, index |-> None]

\* pursue_answer that clears the strands of the table after every new answer.
pursue_answer_cuts_always(S, strand) ==
    LET table == Top(S.stack).table
        ex == strand.ex_clause
        canon == canonicalize_answer_subst(ex.subst, ex.constraints, ex.delayed_subgoals)
        answer == Answer(canon.subst, canon.constraints, canon.delayed_subgoals,
                         ex.ambiguous)
        pushed == push_answer(S.tables, table, answer)
    IN  IF IsSome(truncate_answer(ex.subst))
        THEN [S |-> [S EXCEPT !.tables = mark_floundered(@, table)], index |-> None]
        ELSE IF IsSome(pushed.index)
        THEN [S |-> [S EXCEPT !.tables = take_strands(pushed.tables, table)],
              index |-> pushed.index]
        ELSE [S |-> S, index |-> None]

\* pursue_answer: the solve state and the index of the new answer, None when
\* the answer is not new or too large.
pursue_answer(S, strand) ==
    LET table == Top(S.stack).table
        ex == strand.ex_clause
        canon == canonicalize_answer_subst(ex.subst, ex.constraints, ex.delayed_subgoals)
        answer == Answer(canon.subst, canon.constraints, canon.delayed_subgoals,
                         ex.ambiguous)
        is_trivial_answer == /\ ~answer.ambiguous
                             /\ is_trivial_substitution(answer.subst)
                             /\ empty_constraints(answer)
        pushed == push_answer(S.tables, table, answer)
    IN  IF Len(ex.subgoals) # 0 THEN [S |-> Panic(S, "assert subgoals.is_empty"),
                                      index |-> None]
        ELSE IF Len(ex.floundered_subgoals) # 0
        THEN [S |-> Panic(S, "assert floundered_subgoals.is_empty"), index |-> None]
        ELSE IF IsSome(truncate_answer(ex.subst))
        THEN [S |-> [S EXCEPT !.tables = mark_floundered(@, table)], index |-> None]
        ELSE IF IsSome(pushed.index)
        THEN [S |-> [S EXCEPT !.tables = IF is_trivial_answer
                                        THEN take_strands(pushed.tables, table)
                                        ELSE pushed.tables],
              index |-> pushed.index]
        ELSE [S |-> S, index |-> None]

\* create_refinement_strand that makes a strand for every root answer.
create_refinement_strand_always(answer, table_goal) ==
    LET delayed_subgoals == SubstSeqGoal(answer.delayed_subgoals, "V", "?")
        filtered == SelectSeq(delayed_subgoals, LAMBDA d : d # table_goal)
    IN  Some(canonicalize_strand(Strand(
           [subst |-> SubstParam(answer.subst, "V", "?"),
            ambiguous |-> answer.ambiguous,
            constraints |-> answer.constraints,
            subgoals |-> [i \in 1..Len(filtered) |-> Pos(filtered[i])],
            delayed_subgoals |-> <<>>,
            answer_time |-> 0,
            floundered_subgoals |-> <<>>],
           None, 0)))

\* create_refinement_strand that turns every delayed subgoal into a subgoal,
\* the table goal included.
create_refinement_strand_unfiltered(answer, table_goal) ==
    IF ~has_delayed_subgoals(answer) THEN None
    ELSE LET delayed_subgoals == SubstSeqGoal(answer.delayed_subgoals, "V", "?")
         IN  Some(canonicalize_strand(Strand(
                [subst |-> SubstParam(answer.subst, "V", "?"),
                 ambiguous |-> answer.ambiguous,
                 constraints |-> answer.constraints,
                 subgoals |-> [i \in 1..Len(delayed_subgoals) |-> Pos(delayed_subgoals[i])],
                 delayed_subgoals |-> <<>>,
                 answer_time |-> 0,
                 floundered_subgoals |-> <<>>],
                None, 0)))

\* create_refinement_strand: None for an answer without delayed subgoals.
\* The answer and the table goal are instantiated in two fresh inference
\* tables, in which the variables carry the same numbers.
create_refinement_strand(answer, table_goal) ==
    IF ~has_delayed_subgoals(answer) THEN None
    ELSE LET delayed_subgoals == SubstSeqGoal(answer.delayed_subgoals, "V", "?")
             filtered == SelectSeq(delayed_subgoals, LAMBDA d : d # table_goal)
         IN  Some(canonicalize_strand(Strand(
                [subst |-> SubstParam(answer.subst, "V", "?"),
                 ambiguous |-> answer.ambiguous,
                 constraints |-> answer.constraints,
                 subgoals |-> [i \in 1..Len(filtered) |-> Pos(filtered[i])],
                 delayed_subgoals |-> <<>>,
                 answer_time |-> 0,
                 floundered_subgoals |-> <<>>],
                None, 0)))

\* on_no_remaining_subgoals
on_no_remaining_subgoals(S, strand) ==
    LET pa == pursue_answer(S, strand)
        table == Top(S.stack).table
    IN  IF pa.S.panic # "" THEN pa.S
        ELSE IF IsSome(pa.index)
        THEN IF Len(pa.S.stack) = 1
             THEN \* the root table: pop_and_take_caller_strand is None
                  LET table_goal == instantiate_ucanonical_goal(
                                        pa.S.tables[table].table_goal).goal
                      answer == AnswerAt(pa.S.tables[table], Get(pa.index))
                      refinement == create_refinement_strand(answer, table_goal)
                  IN  Return([pa.S EXCEPT
                                !.stack = <<>>,
                                !.tables = IF IsSome(refinement)
                                           THEN enqueue_strand(@, table, Get(refinement))
                                           ELSE @],
                             "RootAnswerAvailable")
             ELSE LET popped == StackPop(pa.S.stack)
                      caller == Top(popped).active_strand
                  IN  IF ~IsSome(caller)
                      THEN Panic(pa.S, "pop_and_take_caller_strand: unwrap")
                      ELSE LET m == merge_answer_into_strand(
                                        [pa.S EXCEPT !.stack = SetActive(popped, None)],
                                        Get(caller))
                           IN  IF m.ok
                               THEN [m.S EXCEPT !.stack = SetActive(@, Some(m.strand))]
                               ELSE m.S
        ELSE Return(unwind_stack(pa.S), "QuantumExceeded")

\* on_subgoal_selection_flounder that stops the walk at the first caller and
\* returns its strand to the queue, whatever the sign of its selected literal.
RECURSIVE on_subgoal_selection_flounder_stops_at_first_caller(_)
on_subgoal_selection_flounder_stops_at_first_caller(S) ==
    LET table == Top(S.stack).table
        S1 == [S EXCEPT !.tables = mark_floundered(@, table)]
        popped == StackPop(S.stack)
    IN  IF Len(S.stack) = 1
        THEN Return([S1 EXCEPT !.stack = <<>>], "Floundered")
        ELSE IF ~IsSome(Top(popped).active_strand)
        THEN Panic(S1, "pop_and_take_caller_strand: unwrap")
        ELSE LET pr == propagate_floundered_subgoal(Get(Top(popped).active_strand))
                 S2 == [S1 EXCEPT !.stack = SetActive(popped, None)]
             IN  Return(
                        unwind_stack(
                          [S2 EXCEPT !.tables = enqueue_strand(@, Top(popped).table,
                                                   canonicalize_strand(pr.strand))]),
                        "QuantumExceeded")

\* on_subgoal_selection_flounder: every popped table is marked floundered; the
\* walk stops at the first caller that depends positively on the popped table.
RECURSIVE on_subgoal_selection_flounder(_)
on_subgoal_selection_flounder(S) ==
    LET table == Top(S.stack).table
        S1 == [S EXCEPT !.tables = mark_floundered(@, table)]
        popped == StackPop(S.stack)
    IN  IF Len(S.stack) = 1
        THEN Return([S1 EXCEPT !.stack = <<>>], "Floundered")
        ELSE IF ~IsSome(Top(popped).active_strand)
        THEN Panic(S1, "pop_and_take_caller_strand: unwrap")
        ELSE LET pr == propagate_floundered_subgoal(Get(Top(popped).active_strand))
                 S2 == [S1 EXCEPT !.stack = SetActive(popped, None)]
             IN  IF pr.flounders
                 THEN on_subgoal_selection_flounder(S2)
                 ELSE Return(
                        unwind_stack(
                          [S2 EXCEPT !.tables = enqueue_strand(@, Top(popped).table,
                                                   canonicalize_strand(pr.strand))]),
                        "QuantumExceeded")

\* clear_strands_after_cycle: the tables, and whether a strand without a
\* selected subgoal was met (the panic of unwrap_or_else).
RECURSIVE clear_strands_after_cycle(_, _)
clear_strands_after_cycle(tbls, strands) ==
    IF Len(strands) = 0 THEN [tables |-> tbls, panic |-> FALSE]
    ELSE IF ~IsSome(Head(strands).selected_subgoal)
    THEN [tables |-> tbls, panic |-> TRUE]
    ELSE LET strand_table == Get(Head(strands).selected_subgoal).subgoal_table
             inner == clear_strands_after_cycle(take_strands(tbls, strand_table),
                                                tbls[strand_table].strands)
         IN  IF inner.panic THEN inner
             ELSE clear_strands_after_cycle(inner.tables, Tail(strands))

\* on_no_strands_left that takes a table whose strands all wait on a cycle
\* for a table whose strands have all failed.
on_no_strands_left_always_failed(S) ==
    LET popped == StackPop(S.stack)
    IN  IF Len(S.stack) = 1
        THEN Return([S EXCEPT !.stack = <<>>], "NoMoreSolutions")
        ELSE LET caller_strand == Get(Top(popped).active_strand)
                 sel == Get(caller_strand.selected_subgoal)
             IN  IF caller_strand.ex_clause.subgoals[sel.subgoal_index].pos
                 THEN Return(unwind_stack([S EXCEPT !.stack = SetActive(popped, None)]),
                             "QuantumExceeded")
                 ELSE [S EXCEPT !.stack = SetActive(popped,
                         Some([caller_strand EXCEPT
                                 !.selected_subgoal = None,
                                 !.ex_clause.subgoals = RemoveAt(@, sel.subgoal_index)]))]

\* on_no_strands_left that leaves the strands of a cycle without new answers
\* in their tables.
on_no_strands_left_keeps_cycle(S) ==
    LET top == Top(S.stack)
        table == top.table
        popped == StackPop(S.stack)
        clk == top.clock
        cyclic_minimums == top.cyclic_minimums
    IN  IF Len(S.tables[table].strands) = 0
        THEN IF Len(S.stack) = 1
             THEN Return([S EXCEPT !.stack = <<>>], "NoMoreSolutions")
             ELSE IF ~IsSome(Top(popped).active_strand)
             THEN Panic(S, "pop_and_borrow_caller_strand: unwrap")
             ELSE LET caller_strand == Get(Top(popped).active_strand)
                      sel == Get(caller_strand.selected_subgoal)
                  IN  IF caller_strand.ex_clause.subgoals[sel.subgoal_index].pos
                      THEN Return(unwind_stack([S EXCEPT !.stack = SetActive(popped, None)]),
                                  "QuantumExceeded")
                      ELSE [S EXCEPT !.stack = SetActive(popped,
                              Some([caller_strand EXCEPT
                                      !.selected_subgoal = None,
                                      !.ex_clause.subgoals = RemoveAt(@, sel.subgoal_index)]))]
        ELSE IF cyclic_minimums.positive >= clk /\ cyclic_minimums.negative >= clk
        THEN IF cyclic_minimums.negative < TimeStampMAX
             THEN Return(unwind_stack(S), "NegativeCycle")
             ELSE Return(unwind_stack(S), "QuantumExceeded")
        ELSE IF Len(S.stack) = 1
        THEN Panic(S, "nothing on the stack but cyclic result")
        ELSE IF ~IsSome(Top(popped).active_strand)
        THEN Panic(S, "pop_and_borrow_caller_strand: unwrap")
        ELSE LET caller_strand == Get(Top(popped).active_strand)
                 sel == Get(caller_strand.selected_subgoal)
                 mins == IF caller_strand.ex_clause.subgoals[sel.subgoal_index].pos
                         THEN cyclic_minimums
                         ELSE Minimums(Top(popped).clock,
                                       minimum_of_pos_and_neg(cyclic_minimums))
             IN  [S EXCEPT
                    !.stack = [SetActive(popped, None) EXCEPT
                                 ![Len(popped)].cyclic_minimums = take_minimums(@, mins)],
                    !.tables = enqueue_strand(@, Top(popped).table,
                                              canonicalize_strand(caller_strand))]

\* on_no_strands_left that discards the caller strand of a failed table
\* whatever the sign of the selected literal.
on_no_strands_left_discards_negative(S) ==
    LET top == Top(S.stack)
        table == top.table
        popped == StackPop(S.stack)
        clk == top.clock
        cyclic_minimums == top.cyclic_minimums
    IN  IF Len(S.tables[table].strands) = 0
        THEN IF Len(S.stack) = 1
             THEN Return([S EXCEPT !.stack = <<>>], "NoMoreSolutions")
             ELSE IF ~IsSome(Top(popped).active_strand)
             THEN Panic(S, "pop_and_borrow_caller_strand: unwrap")
             ELSE Return(unwind_stack([S EXCEPT !.stack = SetActive(popped, None)]),
                         "QuantumExceeded")
        ELSE IF cyclic_minimums.positive >= clk /\ cyclic_minimums.negative >= clk
        THEN IF cyclic_minimums.negative < TimeStampMAX
             THEN Return(unwind_stack(S), "NegativeCycle")
             ELSE LET cleared == clear_strands_after_cycle(take_strands(S.tables, table),
                                                           S.tables[table].strands)
                  IN  IF cleared.panic
                      THEN Panic(S, "clear_strands_after_cycle: no selected subgoal")
                      ELSE Return(unwind_stack([S EXCEPT !.tables = cleared.tables]),
                                  "QuantumExceeded")
        ELSE IF Len(S.stack) = 1
        THEN Panic(S, "nothing on the stack but cyclic result")
        ELSE IF ~IsSome(Top(popped).active_strand)
        THEN Panic(S, "pop_and_borrow_caller_strand: unwrap")
        ELSE LET caller_strand == Get(Top(popped).active_strand)
                 sel == Get(caller_strand.selected_subgoal)
                 mins == IF caller_strand.ex_clause.subgoals[sel.subgoal_index].pos
                         THEN cyclic_minimums
                         ELSE Minimums(Top(popped).clock,
                                       minimum_of_pos_and_neg(cyclic_minimums))
             IN  [S EXCEPT
                    !.stack = [SetActive(popped, None) EXCEPT
                                 ![Len(popped)].cyclic_minimums = take_minimums(@, mins)],
                    !.tables = enqueue_strand(@, Top(popped).table,
                                              canonicalize_strand(caller_strand))]

\* on_no_strands_left that takes a frame whose minimums equal its own clock
\* for a table that is part of a cycle.
on_no_strands_left_strict_minimums(S) ==
    LET top == Top(S.stack)
        table == top.table
        popped == StackPop(S.stack)
        clk == top.clock
        cyclic_minimums == top.cyclic_minimums
    IN  IF Len(S.tables[table].strands) = 0
        THEN IF Len(S.stack) = 1
             THEN Return([S EXCEPT !.stack = <<>>], "NoMoreSolutions")
             ELSE IF ~IsSome(Top(popped).active_strand)
             THEN Panic(S, "pop_and_borrow_caller_strand: unwrap")
             ELSE LET caller_strand == Get(Top(popped).active_strand)
                      sel == Get(caller_strand.selected_subgoal)
                  IN  IF caller_strand.ex_clause.subgoals[sel.subgoal_index].pos
                      THEN Return(unwind_stack([S EXCEPT !.stack = SetActive(popped, None)]),
                                  "QuantumExceeded")
                      ELSE [S EXCEPT !.stack = SetActive(popped,
                              Some([caller_strand EXCEPT
                                      !.selected_subgoal = None,
                                      !.ex_clause.subgoals = RemoveAt(@, sel.subgoal_index)]))]
        ELSE IF cyclic_minimums.positive > clk /\ cyclic_minimums.negative > clk
        THEN IF cyclic_minimums.negative < TimeStampMAX
             THEN Return(unwind_stack(S), "NegativeCycle")
             ELSE LET cleared == clear_strands_after_cycle(take_strands(S.tables, table),
                                                           S.tables[table].strands)
                  IN  IF cleared.panic
                      THEN Panic(S, "clear_strands_after_cycle: no selected subgoal")
                      ELSE Return(unwind_stack([S EXCEPT !.tables = cleared.tables]),
                                  "QuantumExceeded")
        ELSE IF Len(S.stack) = 1
        THEN Panic(S, "nothing on the stack but cyclic result")
        ELSE IF ~IsSome(Top(popped).active_strand)
        THEN Panic(S, "pop_and_borrow_caller_strand: unwrap")
        ELSE LET caller_strand == Get(Top(popped).active_strand)
                 sel == Get(caller_strand.selected_subgoal)
                 mins == IF caller_strand.ex_clause.subgoals[sel.subgoal_index].pos
                         THEN cyclic_minimums
                         ELSE Minimums(Top(popped).clock,
                                       minimum_of_pos_and_neg(cyclic_minimums))
             IN  [S EXCEPT
                    !.stack = [SetActive(popped, None) EXCEPT
                                 ![Len(popped)].cyclic_minimums = take_minimums(@, mins)],
                    !.tables = enqueue_strand(@, Top(popped).table,
                                              canonicalize_strand(caller_strand))]

\* on_no_strands_left
on_no_strands_left(S) ==
    LET top == Top(S.stack)
        table == top.table
        popped == StackPop(S.stack)
        clk == top.clock
        cyclic_minimums == top.cyclic_minimums
    IN  IF Len(S.tables[table].strands) = 0
        THEN IF Len(S.stack) = 1
             THEN Return([S EXCEPT !.stack = <<>>], "NoMoreSolutions")
             ELSE IF ~IsSome(Top(popped).active_strand)
             THEN Panic(S, "pop_and_borrow_caller_strand: unwrap")
             ELSE LET caller_strand == Get(Top(popped).active_strand)
                      sel == Get(caller_strand.selected_subgoal)
                  IN  IF caller_strand.ex_clause.subgoals[sel.subgoal_index].pos
                      THEN Return(unwind_stack([S EXCEPT !.stack = SetActive(popped, None)]),
                                  "QuantumExceeded")
                      ELSE [S EXCEPT !.stack = SetActive(popped,
                              Some([caller_strand EXCEPT
                                      !.selected_subgoal = None,
                                      !.ex_clause.subgoals = RemoveAt(@, sel.subgoal_index)]))]
        ELSE IF cyclic_minimums.positive >= clk /\ cyclic_minimums.negative >= clk
        THEN IF cyclic_minimums.negative < TimeStampMAX
             THEN Return(unwind_stack(S), "NegativeCycle")
             ELSE LET cleared == clear_strands_after_cycle(take_strands(S.tables, table),
                                                           S.tables[table].strands)
                  IN  IF cleared.panic
                      THEN Panic(S, "clear_strands_after_cycle: no selected subgoal")
                      ELSE Return(unwind_stack([S EXCEPT !.tables = cleared.tables]),
                                  "QuantumExceeded")
        ELSE IF Len(S.stack) = 1
        THEN Panic(S, "nothing on the stack but cyclic result")
        ELSE IF ~IsSome(Top(popped).active_strand)
        THEN Panic(S, "pop_and_borrow_caller_strand: unwrap")
        ELSE LET caller_strand == Get(Top(popped).active_strand)
                 sel == Get(caller_strand.selected_subgoal)
                 mins == IF caller_strand.ex_clause.subgoals[sel.subgoal_index].pos
                         THEN cyclic_minimums
                         ELSE Minimums(Top(popped).clock,
                                       minimum_of_pos_and_neg(cyclic_minimums))
             IN  [S EXCEPT
                    !.stack = [SetActive(popped, None) EXCEPT
                                 ![Len(popped)].cyclic_minimums = take_minimums(@, mins)],
                    !.tables = enqueue_strand(@, Top(popped).table,
                                              canonicalize_strand(caller_strand))]

---------------------------------------------------------------------------
(* Programs and root goals *)

Program(clauses, coind, nonenum, roots) ==
    [clauses |-> clauses, coind |-> coind, nonenum |-> nonenum, roots |-> roots]

Fact(p, h) == Clause(p, h, <<>>, <<>>)
Rule(p, h, body) == Clause(p, h, body, <<>>)

p0 == Dom("p", "")
q0 == Dom("q", "")
r0 == Dom("r", "")

Programs ==
    << \* 1: p.
       Program(<<Fact("p", "")>>, {}, {}, {p0}),
       \* 2: p :- q.  p :- r.  q.
       Program(<<Rule("p", "", <<q0>>), Rule("p", "", <<r0>>), Fact("q", "")>>,
               {}, {}, {p0, q0}),
       \* 3: p :- p.
       Program(<<Rule("p", "", <<p0>>)>>, {}, {}, {p0}),
       \* 4: p :- p.  with p coinductive
       Program(<<Rule("p", "", <<p0>>)>>, {"p"}, {}, {p0}),
       \* 5: q(a).  goals: exists X. not q(X);  not q(b);  not q(a);  q(X)
       Program(<<Fact("q", "a")>>, {}, {},
               {Not("q", "V"), Not("q", "b"), Not("q", "a"), Dom("q", "V")}),
       \* 6: p :- not p.
       Program(<<Rule("p", "", <<Not("p", "")>>)>>, {}, {}, {p0}),
       \* 7: q(a).  q(a).  q(b).  r(X) :- q(X).
       Program(<<Fact("q", "a"), Fact("q", "a"), Fact("q", "b"),
                 Rule("r", "V", <<Dom("q", "V")>>)>>,
               {}, {}, {Dom("q", "V"), Dom("r", "V"), Dom("r", "b")}),
       \* 8: p(a).  p(X) :- not q(X).
       Program(<<Fact("p", "a"), Rule("p", "V", <<Not("q", "V")>>)>>,
               {}, {}, {Dom("p", "V")}),
       \* 9: p :- p. (constraint r1)  p :- not q(X).  with p coinductive
       Program(<<Clause("p", "", <<p0>>, <<"r1">>), Rule("p", "", <<Not("q", "V")>>)>>,
               {"p"}, {}, {p0}),
       \* 10: p :- q.  q :- p.  q :- r.  r.
       Program(<<Rule("p", "", <<q0>>), Rule("q", "", <<p0>>), Rule("q", "", <<r0>>),
                 Fact("r", "")>>,
               {}, {}, {p0, q0}),
       \* 11: p :- CannotProve.  t :- not p.  k. (constraint r1)  k. (constraint r2)
       Program(<<Rule("p", "", <<CannotProve>>), Rule("t", "", <<Not("p", "")>>),
                 Clause("k", "", <<>>, <<"r1">>), Clause("k", "", <<>>, <<"r2">>)>>,
               {}, {}, {p0, Dom("t", ""), Dom("k", "")}),
       \* 12: p :- q(X), f(X).  q(a).  f(a).  with f not enumerable
       Program(<<Rule("p", "", <<Dom("q", "V"), Dom("f", "V")>>), Fact("q", "a"),
                 Fact("f", "a")>>,
               {}, {"f"}, {p0, Dom("f", "V")}),
       \* 13: q(L).  q(a).  p :- q(X).   L exceeds max_size
       Program(<<Fact("q", "a"), Fact("q", "L"), Rule("p", "", <<Dom("q", "V")>>)>>,
               {}, {}, {p0, Dom("q", "V"), Dom("q", "L")}),
       \* 14: f(a).  with f not enumerable.  goal: forall T. not f(T)
       Program(<<Fact("f", "a")>>, {}, {"f"}, {Not("f", "U"), All(<<>>)}),
       \* 15: p :- not q.  q :- p.
       Program(<<Rule("p", "", <<Not("q", "")>>), Rule("q", "", <<p0>>)>>,
               {}, {}, {p0, q0}),
       \* 16: p :- q.   (q has no clause);  goals p, not q, a = b, exists X. X = a, q(X)
       Program(<<Rule("p", "", <<q0>>)>>, {}, {},
               {p0, Not("q", ""), Unify("a", "b"),
                All(<<Unify("V", "a"), Dom("q", "V")>>)}),
       \* 17: p :- q.  q :- not r(X).  t :- not q.  s :- p.
       Program(<<Rule("p", "", <<q0>>), Rule("q", "", <<Not("r", "V")>>),
                 Rule("t", "", <<Not("q", "")>>), Rule("s", "", <<p0>>)>>,
               {}, {}, {p0, Dom("t", ""), Dom("s", "")}),
       \* 18: p :- p, q(X).  q(a).  q(b).   (q(X) is selected first)
       Program(<<Rule("p", "", <<p0, Dom("q", "V")>>), Fact("q", "a"), Fact("q", "b")>>,
               {}, {}, {p0, Dom("q", "V")}),
       \* 19: q :- not r(X).  t :- not q.  u :- t.
       Program(<<Rule("q", "", <<Not("r", "V")>>), Rule("t", "", <<Not("q", "")>>),
                 Rule("u", "", <<Dom("t", "")>>)>>,
               {}, {}, {Dom("u", "")}),
       \* 20: p :- q.  q :- p.  with p coinductive and q inductive
       Program(<<Rule("p", "", <<q0>>), Rule("q", "", <<p0>>)>>, {"p"}, {}, {p0}),
       \* 21: p :- q.  q :- p.  s :- q.  with p, q and s coinductive
       Program(<<Rule("p", "", <<q0>>), Rule("q", "", <<p0>>), Rule("s", "", <<q0>>)>>,
               {"p", "q", "s"}, {}, {p0, Dom("s", "")}),
       \* 22: p :- r, q(X), f(X).  r.  q(a).  f(a).  with f not enumerable
       Program(<<Rule("p", "", <<r0, Dom("q", "V"), Dom("f", "V")>>), Fact("r", ""),
                 Fact("q", "a"), Fact("f", "a")>>,
               {}, {"f"}, {p0})
    >>

---------------------------------------------------------------------------
(* Actions *)

Outcome(table, answer_index, kind, answer) ==
    [table |-> table, answer_index |-> answer_index, kind |-> kind, answer |-> answer]

NoOutcome == Outcome(0, 0, "none", None)

Init ==
    /\ prog \in 1..Len(Programs)
    /\ tables = <<>>
    /\ clock = 0
    /\ stack = <<>>
    /\ pc = "idle"
    /\ call = [table |-> 0, answer_index |-> 0]
    /\ result = NoOutcome
    /\ prev = NoOutcome
    /\ ev = "init"
    /\ hist = {}

\* root_answer that hands out the answer whatever its delayed subgoals.
RootOk_ignores_delayed(tbls, table, answer_index) ==
    LET answer == AnswerAt(tbls[table], answer_index)
    IN  Outcome(table, answer_index, "Ok",
                Some([subst |-> answer.subst, constraints |-> answer.constraints,
                      ambiguous |-> answer.ambiguous]))

\* root_answer after ensure_root_answer has returned Ok(()).
RootOk(tbls, table, answer_index) ==
    LET answer == AnswerAt(tbls[table], answer_index)
    IN  IF has_delayed_subgoals(answer)
        THEN Outcome(table, answer_index, "InvalidAnswer", None)
        ELSE Outcome(table, answer_index, "Ok",
                     Some([subst |-> answer.subst, constraints |-> answer.constraints,
                           ambiguous |-> answer.ambiguous]))

\* The outcomes returned so far, as (table, answer index, kind); again is set
\* in the entry of an outcome that was returned more than once.
Returned(outcome) ==
    LET first == [table |-> outcome.table, answer_index |-> outcome.answer_index,
                  kind |-> outcome.kind, again |-> FALSE]
    IN  hist \cup {[first EXCEPT !.again = (first \in hist)]}

\* The caller seeds a table for one of its goals.  The last two outcomes are
\* those of root_answer calls with no other operation in between, so they are
\* forgotten here.
EnsureTable(goal) ==
    /\ pc = "idle"
    /\ ~IsSome(index_of(tables, goal))
    /\ tables' = get_or_create_table_for_ucanonical_goal(Programs[prog], tables, goal).tables
    /\ ev' = "ensure_table"
    /\ result' = NoOutcome
    /\ prev' = NoOutcome
    /\ UNCHANGED <<prog, clock, stack, pc, call, hist>>

\* The prologue that looks for a tabled answer before the floundered flag.
ensure_root_answer_entry_cached_first(tbls, initial_table, initial_answer) ==
    IF HasAnswer(tbls[initial_table], initial_answer) THEN "Cached"
    ELSE IF tbls[initial_table].floundered THEN "Floundered"
    ELSE "Push"

\* The prologue that never answers from the table.
ensure_root_answer_entry_no_cache(tbls, initial_table, initial_answer) ==
    IF tbls[initial_table].floundered THEN "Floundered" ELSE "Push"

\* The prologue of ensure_root_answer: a floundered table, a tabled answer, or
\* the root table has to be pushed.
ensure_root_answer_entry(tbls, initial_table, initial_answer) ==
    IF tbls[initial_table].floundered THEN "Floundered"
    ELSE IF HasAnswer(tbls[initial_table], initial_answer) THEN "Cached"
    ELSE IF next_answer_index(tbls[initial_table]) # initial_answer THEN "assert_eq"
    ELSE "Push"

\* root_answer(table, answer_index) up to the first loop iteration of
\* ensure_root_answer: a floundered table and a cached answer return at once.
RootAnswer(table, answer_index) ==
    LET entry == ensure_root_answer_entry(tables, table, answer_index)
        outcome == IF entry = "Floundered"
                   THEN Outcome(table, answer_index, "Floundered", None)
                   ELSE RootOk(tables, table, answer_index)
    IN  /\ pc = "idle"
        /\ entry # "assert_eq"
        /\ call' = [table |-> table, answer_index |-> answer_index]
        /\ IF entry \in {"Floundered", "Cached"}
           THEN /\ result' = outcome
                /\ prev' = result
                /\ hist' = Returned(outcome)
                /\ stack' = <<>>
                /\ ev' = IF entry = "Floundered" THEN "root_floundered" ELSE "root_cached"
                /\ UNCHANGED <<prog, tables, clock, pc>>
           ELSE /\ clock < MaxClock
                /\ clock' = clock + 1
                /\ stack' = StackPush(<<>>, table, MinimumsMAX, clock + 1)
                /\ pc' = "loop"
                /\ ev' = "root_push"
                /\ UNCHANGED <<prog, tables, result, prev, hist>>

\* The strand the iteration works on: the active strand of the top frame, or
\* the next strand of the table not yet pursued at the frame's clock.
NextStrand ==
    LET top == Top(stack)
        dq == dequeue_next_strand_if(tables[top.table], top.clock)
    IN  IF IsSome(top.active_strand)
        THEN [some |-> TRUE, tables |-> tables, strand |-> Get(top.active_strand)]
        ELSE IF IsSome(dq)
        THEN LET canonical_strand == tables[top.table].strands[Get(dq)]
             IN  [some |-> TRUE,
                  tables |-> [tables EXCEPT ![top.table].strands = RemoveAt(@, Get(dq))],
                  strand |-> Strand(
                      instantiate_ex_clause(canonical_strand.canonical_ex_clause),
                      canonical_strand.selected_subgoal,
                      canonical_strand.last_pursued_time)]
        ELSE [some |-> FALSE, tables |-> tables, strand |-> None]

\* select_subgoal on the strand of this iteration without the time stamp of
\* the frame.
Selection_keeps_last_pursued_time ==
    select_subgoal(Programs[prog], NextStrand.tables, NextStrand.strand)

\* The outcome of select_subgoal on the strand of this iteration.
Selection ==
    select_subgoal(Programs[prog], NextStrand.tables,
                   [NextStrand.strand EXCEPT !.last_pursued_time = Top(stack).clock])

\* The solve state in which the handler of this iteration runs.
Selected == SolveState(Selection.tables, clock, SetActive(stack, None))

\* The end of a loop iteration: the loop goes on, or ensure_root_answer
\* returns and root_answer builds its result, or the engine panicked.
Finish(S, event) ==
    LET kind == IF S.panic # "" THEN S.panic
                ELSE IF Get(S.ret) # "RootAnswerAvailable" THEN Get(S.ret)
                ELSE IF Len(S.stack) # 0 THEN "assert stack.is_empty"
                ELSE "RootAnswerAvailable"
        outcome == IF kind = "RootAnswerAvailable"
                   THEN RootOk(S.tables, call.table, call.answer_index)
                   ELSE Outcome(call.table, call.answer_index, kind, None)
    IN  /\ S.clock <= MaxClock
        /\ tables' = S.tables
        /\ clock' = S.clock
        /\ stack' = S.stack
        /\ ev' = event
        /\ UNCHANGED <<prog, call>>
        /\ IF S.panic = "" /\ ~IsSome(S.ret)
           THEN /\ pc' = "loop"
                /\ UNCHANGED <<result, prev, hist>>
           ELSE /\ pc' = IF S.panic # "" \/ kind = "assert stack.is_empty"
                         THEN "panic" ELSE "idle"
                /\ result' = outcome
                /\ prev' = result
                /\ hist' = Returned(outcome)

SubgoalSelected ==
    /\ pc = "loop"
    /\ NextStrand.some
    /\ Selection.sel = "Selected"
    /\ Finish(on_subgoal_selected(Selected, Selection.strand), "subgoal_selected")

NoRemainingSubgoals ==
    /\ pc = "loop"
    /\ NextStrand.some
    /\ Selection.sel = "NoRemainingSubgoals"
    /\ Finish(on_no_remaining_subgoals(Selected, Selection.strand),
              "no_remaining_subgoals")

SubgoalSelectionFlounder ==
    /\ pc = "loop"
    /\ NextStrand.some
    /\ Selection.sel = "Floundered"
    /\ Finish(on_subgoal_selection_flounder(Selected), "subgoal_selection_flounder")

NoStrandsLeft ==
    /\ pc = "loop"
    /\ ~NextStrand.some
    /\ Finish(on_no_strands_left(SolveState(tables, clock, stack)), "no_strands_left")

\* The substitutions the caller's test asks for.
TestSubsts == {"", "a", "b", "V"}

\* The caller asks, after root_answer gave it an answer of the table, whether
\* a future answer can have the substitution: the index is the one of the
\* answer it peeked at or the one after the answer it consumed.  The forest is
\* only read.
AnyFutureAnswer(table, answer, subst) ==
    /\ pc = "idle"
    /\ result.kind = "Ok"
    /\ table = result.table
    /\ answer \in {result.answer_index, result.answer_index + 1}
    /\ ev' = IF any_future_answer(tables, table, answer, {subst})
             THEN "any_future_answer_true" ELSE "any_future_answer_false"
    /\ UNCHANGED <<prog, tables, clock, stack, pc, call, result, prev, hist>>

Next ==
    \/ \E goal \in Programs[prog].roots : EnsureTable(goal)
    \/ \E table \in 1..Len(tables) : \E answer_index \in 0..Len(tables[table].answers) :
          /\ tables[table].table_goal \in Programs[prog].roots
          /\ RootAnswer(table, answer_index)
    \/ \E table \in 1..Len(tables) : \E answer \in 0..Len(tables[table].answers) :
       \E subst \in TestSubsts :
          /\ tables[table].table_goal \in Programs[prog].roots
          /\ AnyFutureAnswer(table, answer, subst)
    \/ SubgoalSelected
    \/ NoRemainingSubgoals
    \/ SubgoalSelectionFlounder
    \/ NoStrandsLeft

Spec == Init /\ [][Next]_vars

\* The programs of the runs in which the solve state can be dropped.
DropPrograms == {2, 10, 11, 17}

InitDrop ==
    /\ Init
    /\ prog \in DropPrograms

\* The solve state is dropped between two loop iterations: the search is
\* given up and the forest keeps the strands.
Drop ==
    LET S == drop(SolveState(tables, clock, stack))
    IN  /\ pc = "loop"
        /\ tables' = S.tables
        /\ stack' = S.stack
        /\ pc' = IF S.panic # "" THEN "panic" ELSE "dropped"
        /\ ev' = "drop"
        /\ UNCHANGED <<prog, clock, call, result, prev, hist>>

NextDrop == Next \/ Drop

SpecDrop == InitDrop /\ [][NextDrop]_vars

---------------------------------------------------------------------------
(* The aggregator: chalk-solve/src/solve/slg/aggregate.rs *)

\* The longest answer stream and the largest expectation that are drawn.
MaxStream == 3
MaxExpected == 2

\* AnswerResult and CompleteAnswer.
AnswerResult(kind, subst, ambiguous) ==
    [kind |-> kind, subst |-> subst, ambiguous |-> ambiguous]

NoMoreSolutions == AnswerResult("NoMoreSolutions", "", FALSE)
Floundered == AnswerResult("Floundered", "", FALSE)
QuantumExceeded == AnswerResult("QuantumExceeded", "", FALSE)

\* The substitutions of the answers of a root goal without and with a
\* variable.
RootSubsts(has_var) == IF has_var THEN {"a", "b", "V"} ELSE {""}

AnswerResults(has_var) ==
    {AnswerResult("Answer", s, amb) : s \in RootSubsts(has_var), amb \in BOOLEAN}
        \cup {Floundered, QuantumExceeded}

\* An answer stream: the results the forest gives at the successive answer
\* indices, and the position of the stream in them.  Past the last result the
\* table has no more solutions.
AnswerStream(items) == [items |-> items, pos |-> 1]

peek_answer(answers) ==
    IF answers.pos > Len(answers.items) THEN NoMoreSolutions
    ELSE answers.items[answers.pos]

\* next_answer: an answer is consumed, a quantum that ran out is not met
\* again at the next call, the two final results stay.
next_answer(answers) ==
    LET r == peek_answer(answers)
    IN  [result |-> r,
         answers |-> IF r.kind \in {"Answer", "QuantumExceeded"}
                     THEN [answers EXCEPT !.pos = @ + 1]
                     ELSE answers]

\* AnswerStream::any_future_answer: some answer still to come passes the
\* test, given as the set of the substitutions it accepts.
stream_any_future_answer(answers, test) ==
    \E i \in answers.pos..Len(answers.items) :
        /\ answers.items[i].kind = "Answer"
        /\ answers.items[i].subst \in test

identity_constrained_subst(has_var) == IF has_var THEN "V" ELSE ""

\* aggregate.rs is_trivial: every parameter is its own bound variable.
is_trivial(subst) == subst \in {"", "V"}

\* MayInvalidate: a bound variable in the guidance cannot be invalidated, a
\* bound variable in the new answer may invalidate, two constants do when
\* they differ.
may_invalidate(new_subst, subst) ==
    IF new_subst = "" \/ subst = "" THEN FALSE
    ELSE IF subst = "V" THEN FALSE
    ELSE IF new_subst = "V" THEN TRUE
    ELSE new_subst # subst

\* merge_into_guidance with the AntiUnifier: equal constants stay, anything
\* else becomes a fresh variable.
merge_into_guidance(guidance, answer_subst) ==
    IF guidance = "" THEN ""
    ELSE IF guidance = answer_subst /\ guidance # "V" THEN guidance
    ELSE "V"

\* Option<Solution>, and the panics of make_solution.
Solution(kind, guidance, subst) == [kind |-> kind, guidance |-> guidance, subst |-> subst]

SolutionNone == Solution("None", "", "")
Unique(subst) == Solution("Unique", "", subst)
Ambig(guidance, subst) == Solution("Ambig", guidance, subst)
SolutionPanic(msg) == Solution("panic", msg, "")

\* After the loop: assert_eq!(expected_answers, num_answers).
make_solution_finish(guidance, subst, num_answers, expected_answers) ==
    IF IsSome(expected_answers) /\ Get(expected_answers) # num_answers
    THEN SolutionPanic("Not enough answers for solution.")
    ELSE Ambig(guidance, IF guidance = "Unknown" THEN "" ELSE subst)

\* The loop that extracts answers and merges them into the guidance.
RECURSIVE make_solution_loop(_, _, _, _, _)
make_solution_loop(has_var, answers, subst, num_answers, expected_answers) ==
    IF subst = "" \/ is_trivial(subst)
    THEN make_solution_finish("Unknown", subst, num_answers, expected_answers)
    ELSE IF ~stream_any_future_answer(answers,
                {s \in RootSubsts(has_var) : may_invalidate(s, subst)})
    THEN make_solution_finish("Definite", subst, num_answers, expected_answers)
    ELSE IF IsSome(expected_answers) /\ num_answers >= Get(expected_answers)
    THEN SolutionPanic("Too many answers for solution.")
    ELSE LET n == next_answer(answers)
         IN  IF n.result.kind = "NoMoreSolutions"
             THEN make_solution_finish("Definite", subst, num_answers, expected_answers)
             ELSE IF n.result.kind = "QuantumExceeded"
             THEN make_solution_finish("Suggested", subst, num_answers, expected_answers)
             ELSE LET new_subst == IF n.result.kind = "Answer" THEN n.result.subst
                                   ELSE identity_constrained_subst(has_var)
                  IN  make_solution_loop(has_var, n.answers,
                                         merge_into_guidance(subst, new_subst),
                                         num_answers + 1, expected_answers)

\* make_solution that gives Unique to a single answer whatever its
\* ambiguity.
make_solution_ignores_ambiguous(has_var, answers, expected_answers) ==
    LET first == next_answer(answers)
    IN  IF first.result.kind = "NoMoreSolutions" THEN SolutionNone
        ELSE IF first.result.kind = "QuantumExceeded" THEN Ambig("Unknown", "")
        ELSE
        LET subst == IF first.result.kind = "Answer" THEN first.result.subst
                     ELSE identity_constrained_subst(has_var)
            ambiguous == IF first.result.kind = "Answer" THEN first.result.ambiguous
                         ELSE TRUE
            peeked == peek_answer(first.answers)
        IN  IF peeked.kind = "QuantumExceeded" THEN Ambig("Suggested", subst)
            ELSE IF peeked.kind = "NoMoreSolutions" THEN Unique(subst)
            ELSE make_solution_loop(has_var, first.answers, subst, 1, expected_answers)

\* make_solution: draws as many answers as it needs from the stream.
make_solution(has_var, answers, expected_answers) ==
    LET first == next_answer(answers)
    IN  IF first.result.kind = "NoMoreSolutions" THEN SolutionNone
        ELSE IF first.result.kind = "QuantumExceeded" THEN Ambig("Unknown", "")
        ELSE
        LET subst == IF first.result.kind = "Answer" THEN first.result.subst
                     ELSE identity_constrained_subst(has_var)
            ambiguous == IF first.result.kind = "Answer" THEN first.result.ambiguous
                         ELSE TRUE
            peeked == peek_answer(first.answers)
        IN  IF peeked.kind = "QuantumExceeded" THEN Ambig("Suggested", subst)
            ELSE IF peeked.kind = "NoMoreSolutions" /\ ~ambiguous THEN Unique(subst)
            ELSE make_solution_loop(has_var, first.answers, subst, 1, expected_answers)

\* The streams of at most MaxStream results.
Streams(has_var) ==
    UNION {[1..n -> AnswerResults(has_var)] : n \in 0..MaxStream}

\* The caller holds a root goal, an answer stream of it and the expected
\* number of answers, if any.
InitSolution ==
    /\ prog = 1
    /\ tables = <<>>
    /\ clock = 0
    /\ stack = <<>>
    /\ pc = "aggregate"
    /\ \E has_var \in BOOLEAN :
       \E items \in Streams(has_var) :
       \E expected_answers \in {None} \cup {Some(n) : n \in 1..MaxExpected} :
          call = [has_var |-> has_var, answers |-> AnswerStream(items),
                  expected_answers |-> expected_answers]
    /\ result = NoOutcome
    /\ prev = NoOutcome
    /\ ev = "init"
    /\ hist = {}

MakeSolution ==
    /\ pc = "aggregate"
    /\ result' = make_solution(call.has_var, call.answers, call.expected_answers)
    /\ pc' = "solved"
    /\ ev' = "make_solution"
    /\ UNCHANGED <<prog, tables, clock, stack, call, prev, hist>>

NextSolution == MakeSolution

SpecSolution == InitSolution /\ [][NextSolution]_vars

---------------------------------------------------------------------------
(* Properties *)

\* C1: in every reachable state no table index occurs in two frames of the
\* stack: on_subgoal_selected pushes the subgoal table only when it is not
\* active, and ensure_root_answer pushes the root table onto an empty stack.
C1_NoTableTwiceOnStack ==
    \A i, j \in 1..Len(stack) : i # j => stack[i].table # stack[j].table

\* A subgoal table was pushed above its caller, and a cycle back to a table
\* of the stack was detected without a push.
C1_Witness ==
    /\ Len(stack) >= 2
    /\ ev = "subgoal_selected"
    /\ \E i \in 1..Len(stack) : stack[i].cyclic_minimums.positive < TimeStampMAX

\* C2: whenever ensure_root_answer has returned the stack is empty, whatever
\* the outcome, and the assertion of root_answer on the stack never fails.
C2_StackEmptyOnReturn ==
    /\ pc = "idle" => Len(stack) = 0
    /\ ~(pc = "panic" /\ result.kind = "assert stack.is_empty")

\* ensure_root_answer returned QuantumExceeded from a frame above the root.
C2_Witness ==
    /\ pc = "idle"
    /\ result.kind = "QuantumExceeded"
    /\ ev = "no_strands_left"

Count(s, x) == Cardinality({i \in DOMAIN s : s[i] = x})

\* The selected literal of the suspended strand of frame i is negative.
CallerIsNegative(i) ==
    LET strand == Get(stack[i].active_strand)
    IN  ~strand.ex_clause.subgoals[Get(strand.selected_subgoal).subgoal_index].pos

\* The caller frames, counted from frame i downwards, that the propagation of
\* a flounder handles itself: the negative callers it discards and the first
\* positive caller, whose subgoal it flounders.
RECURSIVE FlounderDepth(_)
FlounderDepth(i) ==
    IF i = 0 THEN 0
    ELSE IF CallerIsNegative(i) THEN 1 + FlounderDepth(i - 1)
    ELSE 1

\* The number of caller frames at the point of failure of the step that ends
\* with the given event: the caller whose merge failed, the caller whose
\* positive subgoal failed, the callers a flounder reaches.
AtPointOfFailure(event) ==
    CASE event = "no_remaining_subgoals" ->
            IF IsSome(pursue_answer(Selected, Selection.strand).index) THEN 1 ELSE 0
      [] event = "no_strands_left" ->
            IF Len(tables[Top(stack).table].strands) = 0 THEN 1 ELSE 0
      [] event = "subgoal_selection_flounder" -> FlounderDepth(Len(stack) - 1)
      [] OTHER -> 0

\* C3: when a root_answer call returns QuantumExceeded or NegativeCycle, every
\* strand suspended as the active strand of a frame below the point of
\* failure is back in the queue of the table of its own frame, once, in no
\* other table, with its selected subgoal and answer index unchanged.
C3_SuspendedStrandsRequeued ==
    [][(pc = "loop" /\ pc' = "idle"
          /\ result'.kind \in {"QuantumExceeded", "NegativeCycle"})
        => \A i \in 1..(Len(stack) - 1 - AtPointOfFailure(ev')) :
              LET strand == Get(stack[i].active_strand)
                  canonical == canonicalize_strand(strand)
                  table == stack[i].table
              IN  /\ canonical.selected_subgoal = strand.selected_subgoal
                  /\ Count(tables'[table].strands, canonical) >= 1
                  /\ Count(tables'[table].strands, canonical)
                        <= Count(tables[table].strands, canonical) + 1
                  /\ \A other \in (1..Len(tables)) \ {table} :
                        Count(tables'[other].strands, canonical)
                           <= Count(tables[other].strands, canonical)]_vars

\* A duplicate answer of the subgoal table ended the call with
\* QuantumExceeded and the caller's strand, still waiting for answer 1 of its
\* subgoal, is in the queue of the root table.
C3_Witness ==
    /\ prog = 7
    /\ pc = "idle"
    /\ result.kind = "QuantumExceeded"
    /\ ev = "no_remaining_subgoals"
    /\ \E i \in 1..Len(tables[call.table].strands) :
          LET sel == tables[call.table].strands[i].selected_subgoal
          IN  IsSome(sel) /\ Get(sel).answer_index = 1

\* C4: the answers of every table are append-only: a step keeps every table
\* and every published answer at its index, and new answers come after them.
C4_AnswersAppendOnly ==
    [][/\ Len(tables') >= Len(tables)
       /\ \A t \in 1..Len(tables) :
             /\ Len(tables'[t].answers) >= Len(tables[t].answers)
             /\ SubSeq(tables'[t].answers, 1, Len(tables[t].answers))
                   = tables[t].answers]_vars

\* A table holds two answers and a third root_answer call has returned.
C4_Witness ==
    /\ pc = "idle"
    /\ \E t \in 1..Len(tables) : Len(tables[t].answers) >= 2

\* The canonical answer of the strand of this iteration.
Candidate ==
    LET ex == Selection.strand.ex_clause
        canon == canonicalize_answer_subst(ex.subst, ex.constraints, ex.delayed_subgoals)
    IN  Answer(canon.subst, canon.constraints, canon.delayed_subgoals, ex.ambiguous)

NoDuplicateAnswers ==
    \A t \in 1..Len(tables) : \A i, j \in 1..Len(tables[t].answers) :
        i # j => tables[t].answers[i] # tables[t].answers[j]

\* C5: no table holds two answers with the same canonical form, and a strand
\* whose canonical answer is already in its table appends nothing, the stack
\* is unwound and the root call returns QuantumExceeded.
C5_AnswersDeduplicated ==
    /\ []NoDuplicateAnswers
    /\ [][(/\ pc = "loop"
           /\ NextStrand.some
           /\ Selection.sel = "NoRemainingSubgoals"
           /\ \E i \in 1..Len(tables[Top(stack).table].answers) :
                 tables[Top(stack).table].answers[i] = Candidate)
          => /\ tables'[Top(stack).table].answers = tables[Top(stack).table].answers
             /\ pc' = "idle"
             /\ result'.kind = "QuantumExceeded"
             /\ Len(stack') = 0]_vars

\* The second clause q(a) gave the answer the first had published.
C5_Witness ==
    /\ prog = 7
    /\ pc = "idle"
    /\ result.kind = "QuantumExceeded"
    /\ ev = "no_remaining_subgoals"
    /\ \E t \in 1..Len(tables) :
          /\ tables[t].table_goal = Dom("q", "V")
          /\ Len(tables[t].answers) = 1

SameCall == /\ prev.kind # "none"
            /\ result.kind # "none"
            /\ prev.table = result.table
            /\ prev.answer_index = result.answer_index

\* C6 as stated: two root_answer(T, k) calls in succession, with no other
\* operation between them, return the same outcome.
C6_SameOutcomeTwice == SameCall => result = prev

\* C6: two root_answer(T, k) calls in succession return the same outcome,
\* unless the first returned QuantumExceeded.
C6_SameOutcomeUnlessQuantumExceeded ==
    (SameCall /\ prev.kind # "QuantumExceeded") => result = prev

\* The solve loop ran a second time and returned NoMoreSolutions again.
C6_Witness ==
    /\ SameCall
    /\ prev.kind = "NoMoreSolutions"
    /\ result = prev
    /\ ev = "no_strands_left"

\* C7: the floundered flag of a table is never cleared, and root_answer on a
\* floundered table returns Floundered for every index, pushes nothing on
\* the stack and leaves the forest as it is.
C7_FlounderPermanent ==
    [][/\ \A t \in 1..Len(tables) : tables[t].floundered => tables'[t].floundered
       /\ (/\ pc = "idle"
           /\ ev' \in {"root_floundered", "root_cached", "root_push"}
           /\ tables[call'.table].floundered)
          => /\ result'.kind = "Floundered"
             /\ result'.table = call'.table
             /\ result'.answer_index = call'.answer_index
             /\ pc' = "idle"
             /\ Len(stack') = 0
             /\ UNCHANGED <<tables, clock>>]_vars

\* Floundered was returned for an index whose answer had been published
\* before the table floundered.
C7_Witness ==
    /\ ev = "root_floundered"
    /\ result.kind = "Floundered"
    /\ HasAnswer(tables[result.table], result.answer_index)

\* C8: NoMoreSolutions is returned only when the queue of the root table is
\* empty, and after it was returned for (T, k) the table gets no strand and
\* no answer, and every root_answer(T, k) returns NoMoreSolutions.
C8_NoMoreSolutionsPermanent ==
    /\ (pc = "idle" /\ result.kind = "NoMoreSolutions")
          => Len(tables[result.table].strands) = 0
    /\ \A h \in hist : h.kind = "NoMoreSolutions" =>
          /\ Len(tables[h.table].strands) = 0
          /\ Len(tables[h.table].answers) = h.answer_index
          /\ (result.table = h.table /\ result.answer_index = h.answer_index)
                => result.kind = "NoMoreSolutions"

\* NoMoreSolutions was returned again for (T, k), after a root_answer call
\* on another table.
C8_Witness ==
    /\ pc = "idle"
    /\ result.kind = "NoMoreSolutions"
    /\ prev.kind # "none"
    /\ prev.table # result.table
    /\ [table |-> result.table, answer_index |-> result.answer_index,
        kind |-> "NoMoreSolutions", again |-> TRUE] \in hist

\* C9: for the program p :- not p and the root goal p, every root_answer(p, 0)
\* returns NegativeCycle.
C9_NegativeCycle ==
    prog = 6 =>
       /\ \A h \in hist : h.table = 1 /\ h.answer_index = 0 /\ h.kind = "NegativeCycle"
       /\ result.kind \in {"none", "NegativeCycle"}

\* NegativeCycle was returned and returned again.
C9_Witness ==
    /\ prog = 6
    /\ pc = "idle"
    /\ result.kind = "NegativeCycle"
    /\ [table |-> 1, answer_index |-> 0, kind |-> "NegativeCycle", again |-> TRUE] \in hist

\* The outcome of the call that has just returned, and the answer at its index.
RequestedAnswerIsDelayed ==
    /\ HasAnswer(tables[result.table], result.answer_index)
    /\ has_delayed_subgoals(AnswerAt(tables[result.table], result.answer_index))

OkIsComplete ==
    result.kind = "Ok" =>
       /\ HasAnswer(tables[result.table], result.answer_index)
       /\ ~has_delayed_subgoals(AnswerAt(tables[result.table], result.answer_index))
       /\ Get(result.answer).ambiguous
             = AnswerAt(tables[result.table], result.answer_index).ambiguous

\* C10 as stated: an Ok result has no delayed subgoals and the ambiguity flag
\* of the stored answer, and whenever the answer at the requested index
\* exists and has delayed subgoals the call returns InvalidAnswer.
C10_DelayedIsInvalidAnswer ==
    (pc = "idle" /\ result.kind # "none") =>
       /\ OkIsComplete
       /\ RequestedAnswerIsDelayed => result.kind = "InvalidAnswer"

\* C10: an Ok result has no delayed subgoals and the ambiguity flag of the
\* stored answer, and whenever the answer at the requested index exists and
\* has delayed subgoals the call returns InvalidAnswer, unless the table has
\* floundered, when it returns Floundered.
C10_DelayedIsInvalidAnswerUnlessFloundered ==
    (pc = "idle" /\ result.kind # "none") =>
       /\ OkIsComplete
       /\ RequestedAnswerIsDelayed =>
             result.kind = IF tables[result.table].floundered
                           THEN "Floundered" ELSE "InvalidAnswer"

\* InvalidAnswer was returned again, for an answer already in the table.
C10_Witness ==
    /\ pc = "idle"
    /\ result.kind = "InvalidAnswer"
    /\ ev = "root_cached"
    /\ prev = result

\* The outcomes returned so far for the table of the given goal.
OutcomesOf(goal) == {h \in hist : tables[h.table].table_goal = goal}

\* The complete answer with the identity substitution, not ambiguous.
IdentityAnswer == Some([subst |-> "", constraints |-> <<>>, ambiguous |-> FALSE])

\* C11: for the program p. and the root goal p, root_answer(p, 0) returns the
\* non-ambiguous answer with the identity substitution, root_answer(p, 1)
\* returns NoMoreSolutions, and QuantumExceeded is never returned.
C11_UnitFact ==
    prog = 1 =>
       /\ \A h \in hist : \/ h.answer_index = 0 /\ h.kind = "Ok"
                          \/ h.answer_index = 1 /\ h.kind = "NoMoreSolutions"
       /\ result.kind = "Ok" => result.answer = IdentityAnswer
       /\ \A t \in 1..Len(tables) : Len(tables[t].answers) <= 1

\* The answer was returned and the next index gave NoMoreSolutions.
C11_Witness ==
    /\ prog = 1
    /\ prev.kind = "Ok"
    /\ prev.answer = IdentityAnswer
    /\ result.kind = "NoMoreSolutions"
    /\ result.answer_index = 1

\* C12 as stated: for p :- q. p :- r. q. the table of p gives two answers,
\* at the indices 0 and 1, and then NoMoreSolutions.
C12_TwoAnswers ==
    prog = 2 =>
       \A h \in OutcomesOf(p0) : h.kind = "NoMoreSolutions" =>
          /\ h.answer_index = 2
          /\ Len(tables[h.table].answers) = 2

\* C12: for p :- q. p :- r. q. the table of p gives one non-ambiguous answer
\* with the identity substitution, at index 0, and then NoMoreSolutions.
C12_OneAnswer ==
    prog = 2 =>
       /\ \A h \in OutcomesOf(p0) :
             \/ h.answer_index = 0 /\ h.kind = "Ok"
             \/ h.answer_index = 1 /\ h.kind = "NoMoreSolutions"
       /\ (result.kind = "Ok" /\ tables[result.table].table_goal = p0)
             => result.answer = IdentityAnswer
       /\ \A t \in 1..Len(tables) :
             tables[t].table_goal = p0 => Len(tables[t].answers) <= 1

\* The answer of p was returned and the next index gave NoMoreSolutions.
C12_Witness ==
    /\ prog = 2
    /\ result.kind = "NoMoreSolutions"
    /\ tables[result.table].table_goal = p0
    /\ result.answer_index = 1
    /\ [table |-> result.table, answer_index |-> 0, kind |-> "Ok", again |-> FALSE] \in hist

\* C13: for the program p :- p, p not coinductive, and the root goal p,
\* root_answer(p, 0) never returns an answer: it returns QuantumExceeded once,
\* when the cycle is found and the strands of p are cleared, and
\* NoMoreSolutions from then on; the table keeps no strand and no answer.
C13_PositiveCycle ==
    prog = 3 =>
       /\ \A h \in hist : /\ h.answer_index = 0
                          /\ h.kind \in {"QuantumExceeded", "NoMoreSolutions"}
                          /\ ~(h.kind = "QuantumExceeded" /\ h.again)
       /\ prev.kind = "none" => result.kind \in {"none", "QuantumExceeded"}
       /\ prev.kind \in {"QuantumExceeded", "NoMoreSolutions"}
             => result.kind = "NoMoreSolutions"
       /\ \A t \in 1..Len(tables) :
             /\ Len(tables[t].answers) = 0
             /\ (pc = "idle" /\ hist # {}) => Len(tables[t].strands) = 0

\* The cycle was cleared with QuantumExceeded and the next call returned
\* NoMoreSolutions.
C13_Witness ==
    /\ prog = 3
    /\ prev.kind = "QuantumExceeded"
    /\ result.kind = "NoMoreSolutions"
    /\ Len(tables[1].strands) = 0

\* The canonical strand of a refinement whose delayed subgoals were all
\* filtered out: nothing is left to prove.
EmptyRefinementStrand ==
    [canonical_ex_clause |-> EmptyExClause(""), selected_subgoal |-> None,
     last_pursued_time |-> 0]

\* C14: for the program p :- p with p coinductive and the root goal p, the
\* first root_answer(p, 0) publishes answer 0 with the delayed subgoal p and
\* returns InvalidAnswer, leaving in the queue of p a refinement strand whose
\* delayed subgoal was filtered out; root_answer(p, 1) returns a complete
\* answer or NoMoreSolutions; no call panics or returns QuantumExceeded.
C14_CoinductiveCycle ==
    prog = 4 =>
       /\ pc # "panic"
       /\ \A h \in hist :
             /\ h.kind \in {"InvalidAnswer", "Ok", "NoMoreSolutions"}
             /\ h.answer_index = 0 => h.kind = "InvalidAnswer"
             /\ h.answer_index = 1 => h.kind \in {"Ok", "NoMoreSolutions"}
       /\ (pc = "idle" /\ result.kind = "InvalidAnswer"
              /\ ev = "no_remaining_subgoals") =>
             /\ tables[1].answers = <<Answer("", <<>>, <<p0>>, FALSE)>>
             /\ tables[1].strands = <<EmptyRefinementStrand>>

\* The refinement strand gave the complete answer at index 1.
C14_Witness ==
    /\ prog = 4
    /\ prev.kind = "InvalidAnswer"
    /\ result.kind = "Ok"
    /\ result.answer_index = 1
    /\ ev = "no_remaining_subgoals"

\* C15: for the program q(a). and the root goal exists X. not q(X), every
\* root_answer on the root table returns Floundered: the table is marked
\* floundered and never holds an answer.
C15_NegationWithFreeVariable ==
    prog = 5 =>
       /\ \A h \in OutcomesOf(Not("q", "V")) :
             h.kind = "Floundered" /\ tables[h.table].floundered
       /\ \A t \in 1..Len(tables) :
             tables[t].table_goal = Not("q", "V") => Len(tables[t].answers) = 0

\* Subgoal selection floundered on the root strand and the root table was
\* marked floundered.
C15_Witness ==
    /\ prog = 5
    /\ pc = "idle"
    /\ ev = "subgoal_selection_flounder"
    /\ result.kind = "Floundered"
    /\ tables[result.table].table_goal = Not("q", "V")
    /\ tables[result.table].floundered

\* The table on top of the stack has a caller and no strand left in its queue.
FailedSubgoalTable ==
    /\ pc = "loop"
    /\ Len(stack) >= 2
    /\ ~IsSome(Top(stack).active_strand)
    /\ Len(tables[Top(stack).table].strands) = 0

\* The caller strand of the table on top of the stack with its selected
\* literal removed and its selection taken.
CallerWithoutSelectedLiteral ==
    LET caller == Get(stack[Len(stack) - 1].active_strand)
    IN  [caller EXCEPT !.selected_subgoal = None,
                       !.ex_clause.subgoals =
                           RemoveAt(@, Get(caller.selected_subgoal).subgoal_index)]

\* C16: when the table of a selected literal is popped with no strand in its
\* queue, a negative literal is removed from the caller's subgoals and the
\* caller strand stays the active strand of its frame while the loop goes on
\* (the table holds no answer); a positive literal makes the caller strand be
\* dropped and the call return QuantumExceeded.  For the program q(a). the
\* goal not q(b) has the single non-ambiguous answer {}.
C16_NegationAsFailure ==
    [][/\ FailedSubgoalTable =>
             IF CallerIsNegative(Len(stack) - 1)
             THEN /\ pc' = "loop"
                  /\ stack' = SetActive(StackPop(stack), Some(CallerWithoutSelectedLiteral))
                  /\ tables' = tables
                  /\ Len(tables[Top(stack).table].answers) = 0
             ELSE /\ pc' = "idle"
                  /\ result'.kind = "QuantumExceeded"
                  /\ stack' = <<>>
                  /\ tables'[stack[Len(stack) - 1].table].strands =
                        tables[stack[Len(stack) - 1].table].strands
       /\ prog = 5 =>
             /\ \A h \in OutcomesOf(Not("q", "b"))' :
                   \/ h.answer_index = 0 /\ h.kind = "Ok"
                   \/ h.answer_index = 1 /\ h.kind = "NoMoreSolutions"
             /\ (result'.kind = "Ok" /\ tables'[result'.table].table_goal = Not("q", "b"))
                   => result'.answer = IdentityAnswer
      ]_vars

\* The table of q(b) was popped without strands and the literal not q(b) was
\* removed from the root strand, which is still active.
C16_Witness ==
    /\ prog = 5
    /\ pc = "loop"
    /\ ev = "no_strands_left"
    /\ Len(stack) = 1
    /\ tables[Top(stack).table].table_goal = Not("q", "b")
    /\ IsSome(Top(stack).active_strand)
    /\ Get(Top(stack).active_strand).ex_clause.subgoals = <<>>

\* The strand of this iteration has nothing left to prove: pursue_answer is
\* about to run on it.
AtPursueAnswer ==
    /\ pc = "loop"
    /\ NextStrand.some
    /\ Selection.sel = "NoRemainingSubgoals"

\* The answer of the strand is published as a new answer of the top table.
CandidateIsNew ==
    /\ ~IsSome(truncate_answer(Selection.strand.ex_clause.subst))
    /\ \A i \in 1..Len(Selected.tables[Top(stack).table].answers) :
          Selected.tables[Top(stack).table].answers[i] # Candidate

CandidateIsTrivial ==
    /\ ~Candidate.ambiguous
    /\ is_trivial_substitution(Candidate.subst)
    /\ empty_constraints(Candidate)

\* C17: right after pursue_answer publishes a new trivial answer the strand
\* queue of its table is empty; when the answer is not trivial or not new the
\* queue is what it was before pursue_answer.  At the end of the handler the
\* queue is still empty unless the answer has delayed subgoals, for which the
\* root table gets a refinement strand.
C17_GreenCut ==
    [][AtPursueAnswer =>
         LET table == Top(stack).table
             pa == pursue_answer(Selected, Selection.strand)
         IN  IF CandidateIsNew /\ CandidateIsTrivial
             THEN /\ pa.index = Some(Len(Selected.tables[table].answers))
                  /\ pa.S.tables[table].strands = <<>>
                  /\ ~has_delayed_subgoals(Candidate) => tables'[table].strands = <<>>
             ELSE /\ pa.S.tables[table].strands = Selected.tables[table].strands
                  /\ CandidateIsNew <=> IsSome(pa.index)
      ]_vars

\* pursue_answer publishes a new trivial answer for a table that still has
\* strands in its queue, and clears them.
C17_Witness ==
    /\ AtPursueAnswer
    /\ CandidateIsNew
    /\ CandidateIsTrivial
    /\ Len(Selected.tables[Top(stack).table].strands) > 0
    /\ pursue_answer(Selected, Selection.strand).S.tables[Top(stack).table].strands = <<>>

\* The most strands a new table for the goal can be seeded with: one per
\* program clause of a domain goal, one for any other goal.
SeedBound(goal) ==
    LET inst == instantiate_ucanonical_goal(goal).goal
    IN  IF inst.k = "dom" THEN Len(program_clauses(Programs[prog], inst).clauses) ELSE 1

\* What get_or_create_table_for_ucanonical_goal does for the goal in the
\* current forest.
GetOrCreateIsIndexing(goal) ==
    LET r == get_or_create_table_for_ucanonical_goal(Programs[prog], tables, goal)
        n == Len(tables)
    IN  IF \E i \in 1..n : tables[i].table_goal = goal
        THEN /\ r.tables = tables
             /\ r.table \in 1..n
             /\ tables[r.table].table_goal = goal
        ELSE /\ Len(r.tables) = n + 1
             /\ r.table = n + 1
             /\ SubSeq(r.tables, 1, n) = tables
             /\ r.tables[n + 1].table_goal = goal
             /\ r.tables[n + 1].answers = <<>>
             /\ Len(r.tables[n + 1].strands) <= SeedBound(goal)

TableGoalsDistinct ==
    \A i, j \in 1..Len(tables) : i # j => tables[i].table_goal # tables[j].table_goal

\* C18: no two tables of the forest have the same u-canonical goal;
\* get_or_create_table_for_ucanonical_goal returns the index of the table of
\* the goal when there is one and otherwise appends exactly one table, seeded
\* once; no step removes a table or changes the goal of a table.
C18_TableIndexing ==
    /\ [](/\ TableGoalsDistinct
          /\ \A goal \in Programs[prog].roots \cup {tables[i].table_goal : i \in 1..Len(tables)} :
                GetOrCreateIsIndexing(goal))
    /\ [][/\ Len(tables') >= Len(tables)
          /\ \A t \in 1..Len(tables) : tables'[t].table_goal = tables[t].table_goal
         ]_vars

\* The tables of p, q and r exist once each although p :- q and q :- p both
\* asked for the table of the other.
C18_Witness ==
    /\ prog = 10
    /\ Len(tables) = 3
    /\ {tables[i].table_goal : i \in 1..3} = {p0, q0, r0}
    /\ result.kind = "Ok"

\* Some cached answer of the table, or some strand of its queue, has the
\* substitution.
SomeAnswerOrStrand(table, subst) ==
    \/ \E i \in 1..Len(tables[table].answers) : tables[table].answers[i].subst = subst
    \/ \E i \in 1..Len(tables[table].strands) :
          tables[table].strands[i].canonical_ex_clause.subst = subst

\* C19: any_future_answer(table, answer_index, predicate) is true exactly when
\* the predicate holds of some cached answer of the table or of the
\* substitution of some strand in the table's queue, also when the cached
\* answer at answer_index fails the predicate and a queued strand satisfies it.
C19_AnyFutureAnswer ==
    pc = "idle" =>
       \A table \in 1..Len(tables) : \A answer \in 0..Len(tables[table].answers) :
          \A subst \in TestSubsts :
             tables[table].table_goal \in Programs[prog].roots =>
                (any_future_answer(tables, table, answer, {subst})
                    <=> SomeAnswerOrStrand(table, subst))

StrandsOf(queue) == {queue[i] : i \in 1..Len(queue)}

\* The top frame has no active strand and takes a strand from the queue of
\* its table.
Dequeues ==
    /\ pc = "loop"
    /\ ~IsSome(Top(stack).active_strand)
    /\ NextStrand.some

\* The strand is the refinement strand of the answer the step published in
\* table t.
IsRefinementStrand(t, s) ==
    /\ t <= Len(tables)
    /\ Len(tables'[t].answers) = Len(tables[t].answers) + 1
    /\ Some(s) = create_refinement_strand(
                     tables'[t].answers[Len(tables'[t].answers)],
                     instantiate_ucanonical_goal(tables[t].table_goal).goal)

\* C20: a strand pursued in the frame with clock c carries the time stamp c,
\* as the active strand of the frame and when it is put back in the queue of
\* its table (after a cycle, an unwind, or as the next-answer clone of
\* merge_answer_into_strand); every strand a step adds to a queue is such a
\* strand, a strand of a new table or a refinement strand; and a frame only
\* dequeues strands whose time stamp is strictly smaller than its clock, so a
\* strand put back at clock c is dequeued only by a frame pushed later.
C20_StrandFairness ==
    /\ [](\A i \in 1..Len(stack) :
             /\ stack[i].clock <= clock
             /\ i > 1 => stack[i - 1].clock < stack[i].clock
             /\ IsSome(stack[i].active_strand) =>
                   Get(stack[i].active_strand).last_pursued_time = stack[i].clock)
    /\ [][/\ Dequeues => NextStrand.strand.last_pursued_time < Top(stack).clock
          /\ \A t \in 1..Len(tables') : \A s \in StrandsOf(tables'[t].strands) :
                \/ t <= Len(tables) /\ s \in StrandsOf(tables[t].strands)
                \/ t > Len(tables) /\ s.last_pursued_time = 0
                \/ \E i \in 1..Len(stack) :
                      stack[i].table = t /\ s.last_pursued_time = stack[i].clock
                \/ IsRefinementStrand(t, s)
         ]_vars

\* A frame dequeues a strand that an earlier frame pursued and put back.
C20_Witness ==
    /\ Dequeues
    /\ NextStrand.strand.last_pursued_time > 0
    /\ NextStrand.strand.last_pursued_time < Top(stack).clock

\* The strands in the queues of all tables.
QueuedStrands(tbls) == UNION {StrandsOf(tbls[t].strands) : t \in 1..Len(tbls)}

\* C21 as stated: when ensure_root_answer is entered, before the clock is
\* incremented, the last_pursued_time of every strand in every queue is
\* strictly less than the forest's clock.
C21_TimesBelowClock ==
    pc = "idle" => \A s \in QueuedStrands(tables) : s.last_pursued_time < clock

\* C21 amended: the last_pursued_time of every strand in every queue is at
\* most the forest's clock, and strictly less than the clock of a frame at
\* the moment ensure_root_answer or on_subgoal_selected pushes it, after
\* incrementing the clock.
C21_TimesBelowFrameClock ==
    /\ [](\A s \in QueuedStrands(tables) : s.last_pursued_time <= clock)
    /\ [][Len(stack') > Len(stack) =>
             \A s \in QueuedStrands(tables') : s.last_pursued_time < Top(stack').clock
         ]_vars

\* ensure_root_answer pushed the root frame of a table whose queue holds a
\* strand that was pursued at the clock of the entry.
C21_Witness ==
    /\ ev = "root_push"
    /\ \E s \in StrandsOf(tables[Top(stack).table].strands) :
          s.last_pursued_time > 0 /\ s.last_pursued_time = Top(stack).clock - 1

\* C22: when the solve state is dropped between two loop iterations, the
\* stack is empty afterwards and the active strand of every frame, the top
\* frame and the caller frames, is in canonical form at the end of the queue
\* of the table of its frame; nothing else changes in the tables.
C22_DropGuard ==
    [][(pc = "loop" /\ ev' = "drop") =>
          /\ pc' = "dropped"
          /\ stack' = <<>>
          /\ Len(tables') = Len(tables)
          /\ \A t \in 1..Len(tables) :
                /\ tables'[t].answers = tables[t].answers
                /\ tables'[t].floundered = tables[t].floundered
                /\ \A i \in 1..Len(stack) :
                      (stack[i].table = t /\ IsSome(stack[i].active_strand)) =>
                         tables'[t].strands =
                            Append(tables[t].strands,
                                   canonicalize_strand(Get(stack[i].active_strand)))
                /\ (\A i \in 1..Len(stack) :
                       stack[i].table = t => ~IsSome(stack[i].active_strand))
                      => tables'[t].strands = tables[t].strands
      ]_vars

\* The solve state was dropped with a caller strand and the active strand of
\* the top frame: two tables got a pursued strand back, one of them with its
\* selected subgoal.
C22_Witness ==
    /\ pc = "dropped"
    /\ \E t1, t2 \in 1..Len(tables) :
          /\ t1 # t2
          /\ Len(tables[t1].strands) > 0
          /\ Len(tables[t2].strands) > 0
          /\ LET s1 == tables[t1].strands[Len(tables[t1].strands)]
                 s2 == tables[t2].strands[Len(tables[t2].strands)]
             IN  /\ s1.last_pursued_time > 0
                 /\ IsSome(s1.selected_subgoal)
                 /\ s2.last_pursued_time > s1.last_pursued_time
                 /\ ~IsSome(s2.selected_subgoal)

\* C23: a floundered table is never worked on.  No frame of the stack is the
\* frame of a floundered table and no frame is pushed for one, as root or as
\* selected subgoal; no strand is dequeued from a floundered table; and the
\* assertion of on_subgoal_selected that the subgoal table is not floundered
\* never fails, also for a strand that comes back from a queue with a
\* selected subgoal whose table floundered in the meantime.
C23_FlounderedTableNotPursued ==
    /\ [](/\ \A i \in 1..Len(stack) : ~tables[stack[i].table].floundered
          /\ result.kind # "assert !is_floundered"
          /\ Dequeues => ~tables[Top(stack).table].floundered
          /\ (pc = "loop" /\ NextStrand.some /\ Selection.sel = "Selected") =>
                ~Selection.tables[Get(Selection.strand.selected_subgoal).subgoal_table].floundered)
    /\ [][Len(stack') > Len(stack) => ~tables'[Top(stack').table].floundered]_vars

\* A strand comes back from the queue with a selected subgoal whose table
\* floundered after the selection.
C23_Witness ==
    /\ Dequeues
    /\ IsSome(NextStrand.strand.selected_subgoal)
    /\ tables[Get(NextStrand.strand.selected_subgoal).subgoal_table].floundered

\* The strand of this iteration has no selection yet and the next literal
\* select_subgoal looks at is negative.
AtNegativeLiteral ==
    /\ pc = "loop"
    /\ NextStrand.some
    /\ ~IsSome(NextStrand.strand.selected_subgoal)
    /\ Len(NextStrand.strand.ex_clause.subgoals) > 0
    /\ ~NextStrand.strand.ex_clause.subgoals[
            next_subgoal_index(NextStrand.strand.ex_clause)].pos

NextLiteral ==
    NextStrand.strand.ex_clause.subgoals[next_subgoal_index(NextStrand.strand.ex_clause)]

\* The literal is among the floundered subgoals of the strand after
\* select_subgoal, or the whole strand floundered.
NextLiteralFloundered ==
    \/ Selection.sel = "Floundered"
    \/ \E i \in 1..Len(Selection.strand.ex_clause.floundered_subgoals) :
          Selection.strand.ex_clause.floundered_subgoals[i].floundered_literal = NextLiteral

\* C24 as stated: invert_goal returns Some(_) exactly when the inversion
\* fails, as truncate_goal and truncate_answer do for an oversized value, and
\* the engine flounders the negative subgoal on Some.
C24_InvertSomeOnFailure ==
    AtNegativeLiteral =>
       /\ IsSome(invert_goal(NextLiteral.g)) <=> GoalMentions(NextLiteral.g, "?")
       /\ IsSome(invert_goal(NextLiteral.g)) => NextLiteralFloundered

\* C24 amended: invert_goal returns None exactly when the inversion fails (the
\* goal has a free existential variable) and Some(inverted goal) otherwise,
\* the opposite of truncate_goal and truncate_answer, which return Some(_)
\* exactly for an oversized value; the engine flounders the negative subgoal
\* on None and otherwise selects the table of the inverted goal.
C24_InvertNoneOnFailure ==
    /\ AtNegativeLiteral =>
          /\ IsSome(invert_goal(NextLiteral.g)) <=> ~GoalMentions(NextLiteral.g, "?")
          /\ ~IsSome(invert_goal(NextLiteral.g)) => NextLiteralFloundered
          /\ (IsSome(invert_goal(NextLiteral.g)) /\ ~GoalMentions(NextLiteral.g, "L")) =>
                /\ ~GoalMentions(Get(invert_goal(NextLiteral.g)), "U")
                /\ IsSome(index_of(Selection.tables,
                                   fully_canonicalize_goal(Get(invert_goal(NextLiteral.g)))))
                /\ \A i \in 1..Len(Selection.strand.ex_clause.floundered_subgoals) :
                      Selection.strand.ex_clause.floundered_subgoals[i].floundered_literal
                         # NextLiteral
    /\ \A t \in 1..Len(tables) :
          /\ IsSome(truncate_goal(tables[t].table_goal)) <=>
                GoalMentions(tables[t].table_goal, "L")
          /\ \A i \in 1..Len(tables[t].answers) :
                IsSome(truncate_answer(tables[t].answers[i].subst)) <=>
                   tables[t].answers[i].subst = "L"

\* select_subgoal met a negative literal with a free existential variable and
\* floundered it, invert_goal having returned None.
C24_Witness ==
    /\ AtNegativeLiteral
    /\ GoalMentions(NextLiteral.g, "?")
    /\ invert_goal(NextLiteral.g) = None
    /\ NextLiteralFloundered

\* The goal is a negation or a conjunction with a negation.
GoalHasNegation(g) ==
    g.k = "not" \/ \E i \in 1..Len(g.gs) : g.gs[i].k = "not"

\* The program or one of its root goals has a negative literal.
HasNegativeLiteral(P) ==
    \/ \E c \in 1..Len(P.clauses) : \E j \in 1..Len(P.clauses[c].body) :
          GoalHasNegation(P.clauses[c].body[j])
    \/ \E g \in P.roots : GoalHasNegation(g)

\* The step records a cycle through a negative literal for frame i: the top
\* frame's strand met a cycle on its selected negative literal, or the frame
\* above i is popped on a cycle and i selected it negatively or the popped
\* frame carries a negative dependency itself.
NegativeCycleRecorded(i) ==
    \/ /\ ev' = "subgoal_selected"
       /\ i = Len(stack)
       /\ Selection.sel = "Selected"
       /\ ~Selection.strand.ex_clause.subgoals[
               Get(Selection.strand.selected_subgoal).subgoal_index].pos
       /\ IsSome(is_active(stack, Get(Selection.strand.selected_subgoal).subgoal_table))
    \/ /\ ev' = "no_strands_left"
       /\ i = Len(stack) - 1
       /\ Len(tables[Top(stack).table].strands) > 0
       /\ CallerIsNegative(i) \/ Top(stack).cyclic_minimums.negative < TimeStampMAX

\* C25: a frame is pushed with cyclic_minimums.negative = TimeStamp::MAX and
\* the value drops below MAX only in a step that records a cycle through a
\* selected negative literal for the frame, in on_positive_cycle or
\* propagated from a popped frame in on_no_strands_left; for a program and
\* root goals without negative literal every frame keeps MAX and root_answer
\* never returns NegativeCycle.
C25_NegativeMinimum ==
    /\ [][\A i \in 1..Len(stack') :
             stack'[i].cyclic_minimums.negative < TimeStampMAX =>
                \/ /\ i <= Len(stack)
                   /\ stack[i].clock = stack'[i].clock
                   /\ stack[i].cyclic_minimums.negative < TimeStampMAX
                \/ /\ i <= Len(stack)
                   /\ stack[i].clock = stack'[i].clock
                   /\ NegativeCycleRecorded(i)
         ]_vars
    /\ [](~HasNegativeLiteral(Programs[prog]) =>
             /\ \A i \in 1..Len(stack) : stack[i].cyclic_minimums.negative = TimeStampMAX
             /\ \A h \in hist : h.kind # "NegativeCycle"
             /\ result.kind # "NegativeCycle")

\* The frame of q was popped on its cycle with p, and the frame of p, which
\* selected q negatively, got a negative minimum.
C25_Witness ==
    /\ prog = 15
    /\ pc = "loop"
    /\ ev = "no_strands_left"
    /\ Len(stack) = 1
    /\ Top(stack).cyclic_minimums.negative < TimeStampMAX

\* The top frame has no active strand and no eligible strand while its queue
\* is non-empty, and its minimums send on_no_strands_left into the branch
\* 'cycle with no new answers' that is not a negative cycle.
CycleWithNoNewAnswers ==
    /\ pc = "loop"
    /\ ~NextStrand.some
    /\ Len(tables[Top(stack).table].strands) > 0
    /\ Top(stack).cyclic_minimums.positive >= Top(stack).clock
    /\ Top(stack).cyclic_minimums.negative = TimeStampMAX

\* The strands a step removes from the queue of a table.
RemovedStrands(t) == StrandsOf(tables[t].strands) \ StrandsOf(tables'[t].strands)

\* C26: when the top frame takes the branch 'cycle with no new answers', the
\* clearing ends without panic and every strand it removes, from the top
\* table and recursively from the tables of the removed strands' selected
\* subgoals, has a selected subgoal and was pursued at this frame's clock; no
\* strand that still waits to be pursued (a strand of a subgoal table that can
\* still produce an answer, reached through the next-answer clone of
\* merge_answer_into_strand) is dropped.
C26_CycleClearsOnlyCycleStrands ==
    [][CycleWithNoNewAnswers /\ ev' = "no_strands_left" =>
          /\ pc' # "panic"
          /\ \A t \in 1..Len(tables) : \A s \in RemovedStrands(t) :
                /\ IsSome(s.selected_subgoal)
                /\ s.last_pursued_time = Top(stack).clock
      ]_vars

\* This iteration merges an answer into a strand: the strand has a selected
\* subgoal whose answer is cached (on_subgoal_selected), or the top table
\* publishes an answer and hands it to the strand of the caller's frame
\* (on_no_remaining_subgoals).
MergesOnSelection ==
    /\ pc = "loop"
    /\ NextStrand.some
    /\ Selection.sel = "Selected"
    /\ HasAnswer(Selection.tables[Get(Selection.strand.selected_subgoal).subgoal_table],
                 Get(Selection.strand.selected_subgoal).answer_index)

MergesOnAnswer ==
    /\ pc = "loop"
    /\ NextStrand.some
    /\ Selection.sel = "NoRemainingSubgoals"
    /\ Len(stack) >= 2
    /\ IsSome(stack[Len(stack) - 1].active_strand)

\* The strand the answer is merged into, and its selected literal.
StrandBeforeMerge ==
    IF MergesOnSelection THEN Selection.strand
    ELSE Get(stack[Len(stack) - 1].active_strand)

MergedLiteral ==
    StrandBeforeMerge.ex_clause.subgoals[
        Get(StrandBeforeMerge.selected_subgoal).subgoal_index]

\* The step merged the answer and the strand continues as the active strand
\* of the frame it belongs to.
MergeContinues ==
    /\ pc' = "loop"
    /\ \/ MergesOnSelection /\ ev' = "subgoal_selected" /\ Len(stack') = Len(stack)
       \/ MergesOnAnswer /\ ev' = "no_remaining_subgoals" /\ Len(stack') = Len(stack) - 1
    /\ IsSome(Top(stack').active_strand)

StrandAfterMerge == Get(Top(stack').active_strand)

\* C27 as stated: answer_time is advanced by every merge that lets the strand
\* continue, for a positive selected subgoal as well as for a negative one
\* with an ambiguous answer.
C27_AnswerTimeAdvancedByEveryMerge ==
    [][MergeContinues =>
          StrandAfterMerge.ex_clause.answer_time
              = StrandBeforeMerge.ex_clause.answer_time + 1]_vars

\* C27: merge_answer_into_strand advances answer_time by one when it applies
\* the answer of a positive selected subgoal; for a negative selected subgoal
\* with an ambiguous answer the strand continues with answer_time unchanged.
C27_AnswerTimeAdvancedByPositiveMerge ==
    [][MergeContinues =>
          StrandAfterMerge.ex_clause.answer_time
              = StrandBeforeMerge.ex_clause.answer_time
                  + (IF MergedLiteral.pos THEN 1 ELSE 0)]_vars

\* A strand continues after the ambiguous answer of its negative literal was
\* merged: it is the active strand, is ambiguous and has no answer time.
C27_Witness ==
    /\ pc = "loop"
    /\ ev \in {"subgoal_selected", "no_remaining_subgoals"}
    /\ IsSome(Top(stack).active_strand)
    /\ ~IsSome(Get(Top(stack).active_strand).selected_subgoal)
    /\ Get(Top(stack).active_strand).ex_clause.ambiguous
    /\ Get(Top(stack).active_strand).ex_clause.answer_time = 0

\* select_subgoal left the strand of this iteration without selected subgoal
\* and with an empty subgoals list that reconsidering the floundered subgoals
\* does not fill.
SubgoalsEmptyAfterReconsider ==
    /\ pc = "loop"
    /\ NextStrand.some
    /\ ~IsSome(Selection.strand.selected_subgoal)
    /\ Len(Selection.strand.ex_clause.subgoals) = 0
    /\ Len(reconsider_floundered_subgoals(Selection.strand.ex_clause).subgoals) = 0

\* C28 as stated: when the subgoals list is empty and still empty after the
\* floundered subgoals have been reconsidered, select_subgoal answers
\* NoRemainingSubgoals.
C28_EmptyIsNoRemainingSubgoals ==
    SubgoalsEmptyAfterReconsider => Selection.sel = "NoRemainingSubgoals"

\* C28: with an empty subgoals list select_subgoal answers
\* NoRemainingSubgoals only when floundered_subgoals is empty too; when
\* floundered subgoals remain and reconsidering them leaves the subgoals
\* empty, it answers Floundered.
C28_EmptyIsNoRemainingOrFloundered ==
    SubgoalsEmptyAfterReconsider =>
        Selection.sel = IF Len(Selection.strand.ex_clause.floundered_subgoals) = 0
                        THEN "NoRemainingSubgoals"
                        ELSE "Floundered"

\* The strand's only literal floundered and stays floundered.
C28_Witness ==
    /\ SubgoalsEmptyAfterReconsider
    /\ Len(Selection.strand.ex_clause.floundered_subgoals) > 0

\* C29: pursue_answer runs only on a strand whose subgoals and
\* floundered_subgoals are both empty; its two assertions never fail, and a
\* table gets a new answer only in such a step.
C29_AnswerCandidateIsComplete ==
    /\ [](AtPursueAnswer =>
             /\ Len(Selection.strand.ex_clause.subgoals) = 0
             /\ Len(Selection.strand.ex_clause.floundered_subgoals) = 0)
    /\ [](result.kind \notin {"assert subgoals.is_empty",
                              "assert floundered_subgoals.is_empty"})
    /\ [][\A t \in 1..Len(tables) :
             Len(tables'[t].answers) > Len(tables[t].answers) =>
                /\ AtPursueAnswer
                /\ t = Top(stack).table
                /\ Len(Selection.strand.ex_clause.floundered_subgoals) = 0
         ]_vars

\* A subgoal table's strand is handed to pursue_answer after an answer was
\* merged into it.
C29_Witness ==
    /\ AtPursueAnswer
    /\ Len(stack) >= 2
    /\ Selection.strand.ex_clause.answer_time > 0

\* This step merges an answer for the selected negative literal of a strand:
\* the answer is cached when the literal is selected, or the table of the
\* literal publishes it and hands it to the caller's strand.
NegativeMergeStep ==
    \/ /\ MergesOnSelection
       /\ ~MergedLiteral.pos
       /\ ev' = "subgoal_selected"
    \/ /\ MergesOnAnswer
       /\ ~MergesOnSelection
       /\ ~MergedLiteral.pos
       /\ ev' = "no_remaining_subgoals"
       /\ Len(tables'[Top(stack).table].answers) > Len(tables[Top(stack).table].answers)

\* The table of the strand the answer is merged into, and the depth of its
\* frame.
MergeDepth == IF MergesOnSelection THEN Len(stack) ELSE Len(stack) - 1

MergeTable == stack[MergeDepth].table

\* The answer that is merged.
MergedAnswer ==
    AnswerAt(tables'[Get(StrandBeforeMerge.selected_subgoal).subgoal_table],
             Get(StrandBeforeMerge.selected_subgoal).answer_index)

\* C30: merging an answer for a selected negative literal.  An answer that is
\* not ambiguous discards the strand, unwinds the stack and returns
\* QuantumExceeded; an ambiguous answer removes the literal from the strand's
\* subgoals, marks the ex-clause ambiguous and leaves the strand active; in
\* both cases the queue of the strand's table is left as it was: no
\* next-answer clone is enqueued.
C30_NegativeMerge ==
    [][NegativeMergeStep =>
          /\ tables'[MergeTable].strands = Selection.tables[MergeTable].strands
          /\ IF ~MergedAnswer.ambiguous
             THEN /\ pc' = "idle"
                  /\ result'.kind = "QuantumExceeded"
                  /\ stack' = <<>>
             ELSE /\ pc' = "loop"
                  /\ Len(stack') = MergeDepth
                  /\ Top(stack').active_strand =
                        Some([StrandBeforeMerge EXCEPT
                                !.selected_subgoal = None,
                                !.ex_clause.subgoals =
                                    RemoveAt(@, Get(StrandBeforeMerge.selected_subgoal)
                                                    .subgoal_index),
                                !.ex_clause.ambiguous = TRUE])
      ]_vars

\* The strand whose negative literal got an ambiguous answer is active with
\* the literal removed; the queue of its table holds no strand waiting for a
\* further answer of a subgoal table.
C30_Witness ==
    /\ pc = "loop"
    /\ ev \in {"subgoal_selected", "no_remaining_subgoals"}
    /\ IsSome(Top(stack).active_strand)
    /\ Get(Top(stack).active_strand).ex_clause.ambiguous
    /\ Get(Top(stack).active_strand).ex_clause.answer_time = 0
    /\ Get(Top(stack).active_strand).selected_subgoal = None
    /\ \A s \in StrandsOf(tables[Top(stack).table].strands) :
          ~IsSome(s.selected_subgoal)

\* This step is the flounder handler: select_subgoal answered Floundered for
\* the strand of this iteration.
FlounderStep ==
    /\ pc = "loop"
    /\ NextStrand.some
    /\ Selection.sel = "Floundered"
    /\ ev' = "subgoal_selection_flounder"

\* The strand suspended in the frame at depth d and its selected literal.
CallerStrand(d) == Get(stack[d].active_strand)

CallerLiteral(d) ==
    CallerStrand(d).ex_clause.subgoals[
        Get(CallerStrand(d).selected_subgoal).subgoal_index]

\* The depth of the first caller, walking down from the top, whose selected
\* literal is positive; 0 when every caller depends negatively.
PositiveCallers == {d \in 1..(Len(stack) - 1) : CallerLiteral(d).pos}

FlounderStop ==
    IF PositiveCallers = {} THEN 0
    ELSE CHOOSE d \in PositiveCallers : \A e \in PositiveCallers : e <= d

\* The tables popped by the walk.
PoppedByFlounder == {stack[d].table : d \in (FlounderStop + 1)..Len(stack)}

\* The caller strand as the walk returns it to its table.
FlounderedCallerStrand ==
    LET s == CallerStrand(FlounderStop)
        i == Get(s.selected_subgoal).subgoal_index
    IN  [s EXCEPT
           !.selected_subgoal = None,
           !.ex_clause.subgoals = RemoveAt(@, i),
           !.ex_clause.floundered_subgoals =
               Append(@, [floundered_literal |-> s.ex_clause.subgoals[i],
                          floundered_time |-> s.ex_clause.answer_time])]

\* C31: flounder propagation.  Every table popped by the walk is marked
\* floundered and no other table is; the strands of callers that depended
\* negatively are not returned to their queues; at the first caller with a
\* positive selected literal the literal moves to floundered_subgoals, the
\* strand is re-enqueued on the caller's table without selected subgoal and
\* the call returns QuantumExceeded; it returns Floundered only when the walk
\* popped the root table.
C31_FlounderPropagation ==
    [][FlounderStep =>
          /\ pc' = "idle"
          /\ stack' = <<>>
          /\ \A t \in 1..Len(Selection.tables) :
                tables'[t].floundered =
                    (Selection.tables[t].floundered \/ t \in PoppedByFlounder)
          /\ \A d \in (FlounderStop + 1)..Len(stack) :
                tables'[stack[d].table].strands = Selection.tables[stack[d].table].strands
          /\ IF FlounderStop = 0
             THEN result'.kind = "Floundered"
             ELSE /\ result'.kind = "QuantumExceeded"
                  /\ ~tables'[stack[FlounderStop].table].floundered
                  /\ tables'[stack[FlounderStop].table].strands =
                        Append(Selection.tables[stack[FlounderStop].table].strands,
                               canonicalize_strand(FlounderedCallerStrand))
      ]_vars

\* The walk popped the table of q, discarded the strand of t that selected q
\* negatively, popped the table of t and stopped at u, which selected t
\* positively: the call returned QuantumExceeded and the table of u, not
\* floundered, holds the strand without selection and with t floundered.
C31_Witness ==
    /\ prog = 19
    /\ ev = "subgoal_selection_flounder"
    /\ result.kind = "QuantumExceeded"
    /\ \E t \in 1..Len(tables) :
          /\ ~tables[t].floundered
          /\ \E s \in StrandsOf(tables[t].strands) :
                /\ s.selected_subgoal = None
                /\ Len(s.canonical_ex_clause.floundered_subgoals) > 0
    /\ \E u \in 1..Len(tables) : tables[u].floundered

\* The strand of this iteration has a selected subgoal whose table is on the
\* stack and has not yet the requested answer.
CycleOnSelection ==
    /\ pc = "loop"
    /\ NextStrand.some
    /\ Selection.sel = "Selected"
    /\ ~HasAnswer(Selection.tables[Get(Selection.strand.selected_subgoal).subgoal_table],
                  Get(Selection.strand.selected_subgoal).answer_index)
    /\ IsSome(is_active(stack, Get(Selection.strand.selected_subgoal).subgoal_table))

SelectedLiteral ==
    Selection.strand.ex_clause.subgoals[
        Get(Selection.strand.selected_subgoal).subgoal_index]

CyclicDepth == Get(is_active(stack, Get(Selection.strand.selected_subgoal).subgoal_table))

\* Every table from the frame of the selected subgoal's table to the top is
\* coinductive.
CycleIsCoinductive ==
    \A d \in CyclicDepth..Len(stack) : Selection.tables[stack[d].table].coinductive_goal

\* The strand with its selected literal delayed.
DelayedStrand ==
    [Selection.strand EXCEPT
        !.selected_subgoal = None,
        !.ex_clause.subgoals =
            RemoveAt(@, Get(Selection.strand.selected_subgoal).subgoal_index),
        !.ex_clause.delayed_subgoals = Append(@, SelectedLiteral.g)]

\* C32: a cycle met on selection with a positive literal.  If every table from
\* the cyclic depth to the top is coinductive the literal moves from subgoals
\* to delayed_subgoals, the strand is the active strand of the top frame and
\* nothing else changes: same frames, same clock, same minimums, same queues.
\* Otherwise the step is a positive cycle: the strand returns to the queue of
\* the top table and the top frame's positive minimum takes the clock of the
\* cyclic frame.
C32_CoinductiveCycleStep ==
    [][CycleOnSelection /\ SelectedLiteral.pos /\ ev' = "subgoal_selected" =>
          /\ pc' = "loop"
          /\ clock' = clock
          /\ IF CycleIsCoinductive
             THEN /\ tables' = Selection.tables
                  /\ stack' = SetActive(stack, Some(DelayedStrand))
             ELSE /\ tables' = enqueue_strand(Selection.tables, Top(stack).table,
                                              canonicalize_strand(Selection.strand))
                  /\ stack' = [SetActive(stack, None) EXCEPT
                                 ![Len(stack)].cyclic_minimums.positive =
                                     IF stack[CyclicDepth].clock < @
                                     THEN stack[CyclicDepth].clock ELSE @]
      ]_vars

\* The strand of p delayed its literal p on the coinductive cycle of p.
C32_Witness ==
    /\ pc = "loop"
    /\ ev = "subgoal_selected"
    /\ IsSome(Top(stack).active_strand)
    /\ Get(Top(stack).active_strand).selected_subgoal = None
    /\ Len(Get(Top(stack).active_strand).ex_clause.delayed_subgoals) > 0
    /\ Top(stack).cyclic_minimums = MinimumsMAX

\* The tables as the handler of this step finds them: after the strand of the
\* iteration was dequeued and its subgoal selected.
TablesAtHandler == IF pc = "loop" /\ NextStrand.some THEN Selection.tables ELSE tables

\* The strands the handler appended to the queue of a table.
AppendedStrands(t) ==
    {tables'[t].strands[i] :
        i \in (Len(TablesAtHandler[t].strands) + 1)..Len(tables'[t].strands)}

\* The root frame newly publishes an answer that has delayed subgoals.
RootPublishesDelayedAnswer ==
    /\ AtPursueAnswer
    /\ Len(stack) = 1
    /\ ev' = "no_remaining_subgoals"
    /\ Len(tables'[Top(stack).table].answers) > Len(tables[Top(stack).table].answers)
    /\ Len(tables'[Top(stack).table].answers[
              Len(tables'[Top(stack).table].answers)].delayed_subgoals) > 0

\* The refinement strand of the last answer of a table, in canonical form.
RefinementStrandOf(t) ==
    LET answer == tables'[t].answers[Len(tables'[t].answers)]
        kept == SelectSeq(answer.delayed_subgoals, LAMBDA d : d # tables'[t].table_goal)
    IN  [canonical_ex_clause |->
            [subst |-> answer.subst,
             ambiguous |-> answer.ambiguous,
             constraints |-> answer.constraints,
             subgoals |-> [i \in 1..Len(kept) |-> [g |-> kept[i], pos |-> TRUE]],
             delayed_subgoals |-> <<>>,
             answer_time |-> 0,
             floundered_subgoals |-> <<>>],
         selected_subgoal |-> None,
         last_pursued_time |-> 0]

\* C33: when the root frame newly publishes an answer with delayed subgoals,
\* the refinement strand of that answer is appended to the queue of the same
\* table (emptied before if the answer is trivial): the answer's substitution, constraints and ambiguity, the delayed
\* subgoals other than the table goal as positive subgoals, no delayed
\* subgoals.  In every other step (an answer without delayed subgoals, an
\* answer published by a frame above the root, a cached answer returned
\* again) every strand appended to the queue of a table is a strand that was
\* pursued before: it has a selected subgoal or a last_pursued_time.
C33_RefinementStrand ==
    [][\A t \in 1..Len(TablesAtHandler) :
          IF RootPublishesDelayedAnswer /\ t = Top(stack).table
          THEN tables'[t].strands \in
                  {Append(TablesAtHandler[t].strands, RefinementStrandOf(t)),
                   <<RefinementStrandOf(t)>>}
          ELSE \A s \in AppendedStrands(t) :
                  IsSome(s.selected_subgoal) \/ s.last_pursued_time > 0
      ]_vars

\* The table of s holds the refinement strand of its answer, whose delayed
\* subgoal p is not the table goal and became a positive subgoal.
C33_Witness ==
    /\ pc = "idle"
    /\ ev = "no_remaining_subgoals"
    /\ result.kind = "InvalidAnswer"
    /\ \E s \in StrandsOf(tables[result.table].strands) :
          /\ s.selected_subgoal = None
          /\ s.last_pursued_time = 0
          /\ Len(s.canonical_ex_clause.subgoals) > 0
          /\ Len(s.canonical_ex_clause.delayed_subgoals) = 0
          /\ \E a \in 1..Len(tables[result.table].answers) :
                \E d \in 1..Len(tables[result.table].answers[a].delayed_subgoals) :
                   s.canonical_ex_clause.subgoals[1].g =
                       tables[result.table].answers[a].delayed_subgoals[d]

\* This step merges an answer for the selected positive literal of a strand.
PositiveMergeStep ==
    \/ /\ MergesOnSelection
       /\ MergedLiteral.pos
       /\ ev' = "subgoal_selected"
    \/ /\ MergesOnAnswer
       /\ ~MergesOnSelection
       /\ MergedLiteral.pos
       /\ ev' = "no_remaining_subgoals"
       /\ Len(tables'[Top(stack).table].answers) > Len(tables[Top(stack).table].answers)

\* The copy of the strand for the next answer of the same subgoal table.
NextAnswerClone ==
    canonicalize_strand(
        [StrandBeforeMerge EXCEPT
            !.selected_subgoal =
                Some([Get(StrandBeforeMerge.selected_subgoal) EXCEPT
                         !.answer_index = @ + 1])])

\* The merged answer unifies with the selected literal.
MergeApplies ==
    apply_answer_subst(
        StrandBeforeMerge.ex_clause, MergedLiteral.g,
        tables'[Get(StrandBeforeMerge.selected_subgoal).subgoal_table].table_goal,
        MergedAnswer).ok

FlounderedEntries(ex_clause) ==
    {ex_clause.floundered_subgoals[i] : i \in 1..Len(ex_clause.floundered_subgoals)}

\* The times at which the floundered subgoals of an ex-clause floundered.
FlounderedTimes(ex_clause) ==
    [i \in 1..Len(ex_clause.floundered_subgoals) |->
        ex_clause.floundered_subgoals[i].floundered_time]

\* The entries of the strand of this iteration that select_subgoal took out
\* of floundered_subgoals.
Revived ==
    FlounderedEntries(NextStrand.strand.ex_clause)
        \ FlounderedEntries(Selection.strand.ex_clause)

\* The strand that a handler leaves as the active strand of a frame with its
\* selection taken, before the handler ran: the strand a cached or published
\* answer is merged into, the strand that delays a coinductive subgoal, or
\* the caller whose negative subgoal failed.
ContinuedStrand ==
    IF MergeContinues THEN Some(StrandBeforeMerge)
    ELSE IF /\ CycleOnSelection
            /\ ev' = "subgoal_selected"
            /\ pc' = "loop"
            /\ Len(stack') = Len(stack)
            /\ IsSome(Top(stack').active_strand)
         THEN Some(Selection.strand)
    ELSE IF /\ pc = "loop"
            /\ ev' = "no_strands_left"
            /\ pc' = "loop"
            /\ Len(stack') = Len(stack) - 1
            /\ IsSome(Top(stack').active_strand)
         THEN stack[Len(stack) - 1].active_strand
    ELSE None

\* C35: a floundered subgoal returns to subgoals only in select_subgoal, by
\* reconsider_floundered_subgoals: only when every subgoal the strand came
\* with has itself been floundered (the subgoals list was empty), and only if
\* its floundered_time is strictly below the strand's answer_time; the
\* handlers that continue a strand leave its floundered_subgoals in place
\* (a merged answer may bind their variables).
C35_RevivedOnlyAfterAnswer ==
    /\ []((pc = "loop" /\ NextStrand.some) =>
            \A e \in Revived :
               /\ e.floundered_time < NextStrand.strand.ex_clause.answer_time
               /\ ~IsSome(NextStrand.strand.selected_subgoal)
               /\ \A i \in 1..Len(NextStrand.strand.ex_clause.subgoals) :
                     [floundered_literal |-> NextStrand.strand.ex_clause.subgoals[i],
                      floundered_time |-> NextStrand.strand.ex_clause.answer_time]
                        \in FlounderedEntries(Selection.strand.ex_clause))
    /\ [][IsSome(ContinuedStrand) =>
             FlounderedTimes(Get(Top(stack').active_strand).ex_clause)
                = FlounderedTimes(Get(ContinuedStrand).ex_clause)]_vars

\* A subgoal that floundered at answer time 0 is selected again after an
\* answer was merged into the strand.
C35_Witness ==
    /\ pc = "loop"
    /\ NextStrand.some
    /\ Revived # {}
    /\ Selection.sel = "Selected"
    /\ Selection.strand.ex_clause.answer_time > 0

\* The canonical strand the top frame takes from the queue of its table.
DequeuedStrand ==
    tables[Top(stack).table].strands[
        Get(dequeue_next_strand_if(tables[Top(stack).table], Top(stack).clock))]

\* The step publishes a new answer of the top table.
PublishesAnswer ==
    /\ AtPursueAnswer
    /\ ev' = "no_remaining_subgoals"
    /\ Len(tables'[Top(stack).table].answers) > Len(tables[Top(stack).table].answers)

PublishedAnswer ==
    tables'[Top(stack).table].answers[Len(tables'[Top(stack).table].answers)]

\* C36: the ambiguous flag of an ex-clause stays true through the life of its
\* strand.  A strand taken from a queue is instantiated with the flag of the
\* queued strand, subgoal selection with its flounder moves keeps it, a strand
\* that a handler continues keeps it and takes it from an ambiguous merged
\* answer, the next-answer clone carries it, and an answer is published with
\* the flag of its strand; every answer of a table whose goal is CannotProve
\* is ambiguous.
C36_AmbiguousIsSticky ==
    /\ [](Dequeues =>
             NextStrand.strand.ex_clause.ambiguous
                = DequeuedStrand.canonical_ex_clause.ambiguous)
    /\ []((pc = "loop" /\ NextStrand.some) =>
             Selection.strand.ex_clause.ambiguous = NextStrand.strand.ex_clause.ambiguous)
    /\ [][IsSome(ContinuedStrand) =>
             Get(Top(stack').active_strand).ex_clause.ambiguous
                = (\/ Get(ContinuedStrand).ex_clause.ambiguous
                   \/ (MergeContinues /\ MergedAnswer.ambiguous))]_vars
    /\ [][PositiveMergeStep =>
             \E s \in AppendedStrands(MergeTable) :
                /\ IsSome(s.selected_subgoal)
                /\ s.canonical_ex_clause.ambiguous = StrandBeforeMerge.ex_clause.ambiguous
         ]_vars
    /\ [][PublishesAnswer =>
             PublishedAnswer.ambiguous = Selection.strand.ex_clause.ambiguous]_vars
    /\ [](\A t \in 1..Len(tables) :
             tables[t].table_goal.k = "cannot" =>
                \A a \in 1..Len(tables[t].answers) : tables[t].answers[a].ambiguous)

\* An ambiguous strand that waited in a queue is dequeued, has nothing left to
\* prove and is about to publish its answer.
C36_Witness ==
    /\ Dequeues
    /\ DequeuedStrand.canonical_ex_clause.ambiguous
    /\ AtPursueAnswer

\* The caller's call of make_solution has returned.
Solved == pc = "solved"

\* What the stream gives the first next_answer, and what it gives the
\* peek_answer that follows.
FirstResult == next_answer(call.answers).result
PeekedResult == peek_answer(next_answer(call.answers).answers)

\* C37 (as stated): make_solution returns Unique exactly when the first
\* result is an answer that is not ambiguous and the peeked result is
\* NoMoreSolutions, None exactly when the first result is NoMoreSolutions,
\* and an Ambig solution whenever the first result is Floundered or
\* QuantumExceeded or the peeked result is QuantumExceeded.
C37_MakeSolution ==
    Solved =>
        /\ result.kind = "Unique" <=>
              /\ FirstResult.kind = "Answer"
              /\ ~FirstResult.ambiguous
              /\ PeekedResult.kind = "NoMoreSolutions"
        /\ result.kind = "None" <=> FirstResult.kind = "NoMoreSolutions"
        /\ (\/ FirstResult.kind \in {"Floundered", "QuantumExceeded"}
            \/ PeekedResult.kind = "QuantumExceeded") => result.kind = "Ambig"

\* C37 (amended): Unique and None as stated; the result is an Ambig solution
\* whenever the first result is QuantumExceeded or the peeked result is
\* QuantumExceeded; when the first result is Floundered and the peeked result
\* is not QuantumExceeded the result is an Ambig solution unless
\* expected_answers is set to a number other than 1, and then make_solution
\* panics with "Not enough answers for solution.".
C37_MakeSolutionUnlessExpected ==
    Solved =>
        /\ result.kind = "Unique" <=>
              /\ FirstResult.kind = "Answer"
              /\ ~FirstResult.ambiguous
              /\ PeekedResult.kind = "NoMoreSolutions"
        /\ result.kind = "None" <=> FirstResult.kind = "NoMoreSolutions"
        /\ (\/ FirstResult.kind = "QuantumExceeded"
            \/ PeekedResult.kind = "QuantumExceeded") => result.kind = "Ambig"
        /\ (FirstResult.kind = "Floundered" /\ PeekedResult.kind # "QuantumExceeded") =>
              IF call.expected_answers \in {None, Some(1)}
              THEN result.kind = "Ambig"
              ELSE result = SolutionPanic("Not enough answers for solution.")

C37_Witness ==
    /\ Solved
    /\ FirstResult.kind = "Answer"
    /\ ~FirstResult.ambiguous
    /\ PeekedResult.kind = "NoMoreSolutions"
    /\ result.kind = "Unique"

\* The results a call of root_answer hands to its caller.
RootAnswerResults ==
    {"Ok", "InvalidAnswer", "QuantumExceeded", "NoMoreSolutions", "Floundered",
     "NegativeCycle"}

\* C38: a call of root_answer returns: every iteration of its loop either
\* goes on to the next iteration or ends the call with an answer,
\* InvalidAnswer, QuantumExceeded, NoMoreSolutions, Floundered or
\* NegativeCycle, so that the caller can invoke it again after
\* QuantumExceeded.
C38_CallReturnsResult ==
    [][pc = "loop" =>
          \/ pc' = "loop"
          \/ pc' = "idle" /\ result'.kind \in RootAnswerResults
      ]_vars

\* The finite components of the cyclic minimums of the frame at a depth.
FiniteMinimums(d) ==
    {stack[d].cyclic_minimums.positive, stack[d].cyclic_minimums.negative}
        \ {TimeStampMAX}

\* The root frame has no strand left to pursue and its queue is not empty.
RootOutOfStrands ==
    /\ pc = "loop"
    /\ Len(stack) = 1
    /\ ~NextStrand.some
    /\ Len(tables[stack[1].table].strands) > 0

\* C39: the clocks of the frames strictly increase from the bottom of the
\* stack to the top, every finite component of a frame's cyclic minimums is
\* the clock of a frame pushed since the root frame, the root included (the
\* clock advances by one with every push), both components of the root
\* frame are at least the root's clock, so the root
\* frame never takes the branch 'table part of a cycle' and the panic
\* 'nothing on the stack but cyclic result' is not reached.
C39_RootNeverPartOfCycle ==
    /\ \A d \in 1..(Len(stack) - 1) : stack[d].clock < stack[d + 1].clock
    /\ \A d \in 1..Len(stack) : \A t \in FiniteMinimums(d) :
          t \in stack[1].clock..clock
    /\ Len(stack) >= 1 =>
          /\ stack[1].cyclic_minimums.positive >= stack[1].clock
          /\ stack[1].cyclic_minimums.negative >= stack[1].clock
    /\ result.kind # "nothing on the stack but cyclic result"

C39_Witness ==
    /\ RootOutOfStrands
    /\ FiniteMinimums(1) = {stack[1].clock}

\* The strands clear_strands_after_cycle is handed by the top frame, taken
\* out of the top table, and what it makes of them.
ClearedAfterCycle ==
    clear_strands_after_cycle(take_strands(tables, Top(stack).table),
                              tables[Top(stack).table].strands)

\* C40: clear_strands_after_cycle ends without panic: whenever the top frame
\* takes the branch 'cycle with no new answers', every strand visited in the
\* top table and in the tables reached through selected subgoals has a
\* selected subgoal, and the call that takes the branch does not end with the
\* panic of the unwrap.
C40_ClearStrandsAfterCycle ==
    /\ CycleWithNoNewAnswers => ~ClearedAfterCycle.panic
    /\ result.kind # "clear_strands_after_cycle: no selected subgoal"

====
